---- MODULE Spec2Model ----
(***************************************************************************)
(* async-1brc: the chunking reader (RowsReader), the parser workers, the   *)
(* aggregation table (StationRecords / StationStats) and the worker pool   *)
(* coordinator, as a state machine.                                        *)
(*                                                                         *)
(* Bytes are their ASCII codes.  A Vec<u8> is a sequence of bytes; a pool  *)
(* buffer is a record [id, data, cap, frame] where id names the allocation *)
(* and frame is the stream-order number of the frame it carries (0 when it *)
(* carries none).                                                          *)
(***************************************************************************)
EXTENDS Integers, Sequences, FiniteSets, TLC

(***************************************************************************)
(* Bounds of the model.                                                    *)
(***************************************************************************)
MaxThreads == 2
MaxLines == 2

(***************************************************************************)
(* Program constants.                                                      *)
(***************************************************************************)
MAX_LINE_LENGTH == 30
NEWLINE == 10
SEMICOLON == 59
MINUS == 45
DOT == 46
ZERO == 48
NINE == 57

Min2(a, b) == IF a < b THEN a ELSE b
Max2(a, b) == IF a > b THEN a ELSE b
Abs(x) == IF x < 0 THEN -x ELSE x

(***************************************************************************)
(* StationStats (parser/models.rs).                                        *)
(***************************************************************************)
I16_MAX == 32767
I16_MIN == -32768
LANE_WIDTH == 64
I32_MAX == 2147483647
I32_MIN == -I32_MAX - 1

\* a + b on i32 leaves the type's range.
I32Overflows(a, b) ==
    \/ b > 0 /\ a > I32_MAX - b
    \/ b < 0 /\ a < I32_MIN - b

\* a += b on i32 in a build without overflow checks: a + b modulo 2^32.
I32Add(a, b) ==
    IF b > 0 /\ a > I32_MAX - b THEN (a - I32_MAX - 1) + (b - I32_MAX - 1)
    ELSE IF b < 0 /\ a < I32_MIN - b THEN (a + I32_MAX + 1) + (b + I32_MAX + 1)
    ELSE a + b

\* Whether a += b panics: past the range a build with overflow checks
\* panics and a build without them wraps around.
I32AddPanics(a, b) == IF I32Overflows(a, b) THEN BOOLEAN ELSE {FALSE}

StatsDefault == [min |-> I16_MAX, max |-> I16_MIN, sum |-> 0, count |-> 0]

StatsNew(value) == [min |-> value, max |-> value, sum |-> value, count |-> 1]

\* Mutants of extend: one that forgets the count, one that forgets the sum,
\* one that never lowers min.
ExtendNoCount(s, value) ==
    [min |-> IF value < s.min THEN value ELSE s.min,
     max |-> IF value > s.max THEN value ELSE s.max,
     sum |-> s.sum + value,
     count |-> s.count]

ExtendNoSum(s, value) ==
    [min |-> IF value < s.min THEN value ELSE s.min,
     max |-> IF value > s.max THEN value ELSE s.max,
     sum |-> s.sum,
     count |-> s.count + 1]

ExtendNoMin(s, value) ==
    [min |-> s.min,
     max |-> IF value > s.max THEN value ELSE s.max,
     sum |-> s.sum + value,
     count |-> s.count + 1]

StatsExtend(s, value) ==
    [min |-> IF value < s.min THEN value ELSE s.min,
     max |-> IF value > s.max THEN value ELSE s.max,
     sum |-> I32Add(s.sum, value),
     count |-> s.count + 1]

\* Mutant of the stats merge: the left side's max is kept.
StatsAddKeepLeftMax(lhs, rhs) ==
    [min |-> Min2(lhs.min, rhs.min),
     max |-> lhs.max,
     sum |-> lhs.sum + rhs.sum,
     count |-> lhs.count + rhs.count]

StatsAdd(lhs, rhs) ==
    [min |-> Min2(lhs.min, rhs.min),
     max |-> Max2(lhs.max, rhs.max),
     sum |-> I32Add(lhs.sum, rhs.sum),
     count |-> lhs.count + rhs.count]

(***************************************************************************)
(* StationRecords: a map from key bytes to StationStats, kept as a         *)
(* function whose domain is the set of keys present.                       *)
(***************************************************************************)
RecordsNew == << >>

HasKey(records, name) == name \in DOMAIN records

Put(records, name, stats) ==
    [k \in (DOMAIN records) \cup {name} |-> IF k = name THEN stats ELSE records[k]]

\* Mutant of insert: the entry is overwritten with the single value.
InsertReplace(records, name, value) == Put(records, name, StatsNew(value))

\* StationRecords::insert: entry(name).and_modify(extend).or_insert(single).
Insert(records, name, value) ==
    IF HasKey(records, name)
    THEN Put(records, name, StatsExtend(records[name], value))
    ELSE Put(records, name, StatsNew(value))

\* StationRecords::get: an Option, as the set of at most one stats.
Get(records, name) == IF HasKey(records, name) THEN {records[name]} ELSE {}

\* AddAssign for StationRecords: drain rhs, and_modify(+=).or_insert(rhs_stats).
RECURSIVE MergeFrom(_, _, _)
MergeFrom(lhs, rhs, todo) ==
    IF todo = {} THEN lhs
    ELSE LET name == CHOOSE k \in todo : TRUE
             merged == IF HasKey(lhs, name)
                       THEN Put(lhs, name, StatsAdd(lhs[name], rhs[name]))
                       ELSE Put(lhs, name, rhs[name])
         IN MergeFrom(merged, rhs, todo \ {name})

\* Mutant of the table merge: a key present on both sides keeps the left stats.
RecordsAddKeepLeft(lhs, rhs) ==
    [k \in (DOMAIN lhs) \cup (DOMAIN rhs) |-> IF k \in DOMAIN lhs THEN lhs[k] ELSE rhs[k]]

\* Mutant of the table merge: and_modify without or_insert, the keys that
\* only the right side has are dropped.
RecordsAddOnlyModify(lhs, rhs) ==
    [k \in DOMAIN lhs |-> IF k \in DOMAIN rhs THEN StatsAdd(lhs[k], rhs[k]) ELSE lhs[k]]

RecordsAdd(lhs, rhs) == MergeFrom(lhs, rhs, DOMAIN rhs)

\* StationRecords::len: the sum of the counts.
RECURSIVE CountOver(_, _)
CountOver(records, keys) ==
    IF keys = {} THEN 0
    ELSE LET k == CHOOSE x \in keys : TRUE
         IN records[k].count + CountOver(records, keys \ {k})

RecordsLen(records) == CountOver(records, DOMAIN records)

(***************************************************************************)
(* The byte-scan parser (parser/line.rs), reading from a byte slice.       *)
(***************************************************************************)
is_ascii_digit(b) == b >= ZERO /\ b <= NINE
u8_to_digit(b) == b % 16

\* AsyncBufReadExt::read_until on a slice: the number of bytes read, up to
\* and including the first delim, or to the end of the slice.
ReadUntilLen(bytes, delim) ==
    CHOOSE n \in
        { IF hits = {} THEN Len(bytes)
          ELSE CHOOSE i \in hits : \A j \in hits : i <= j :
          hits \in {{i \in 1..Len(bytes) : bytes[i] = delim}} } : TRUE

Take(s, n) == SubSeq(s, 1, Min2(n, Len(s)))
Drop(s, n) == SubSeq(s, n + 1, Len(s))

RECURSIVE FoldDigits(_, _)
FoldDigits(digits, acc) ==
    IF digits = << >> THEN acc
    ELSE FoldDigits(Tail(digits),
                    IF is_ascii_digit(Head(digits))
                    THEN acc * 10 + u8_to_digit(Head(digits))
                    ELSE acc)

\* Mutant of parse_name: the last byte read is not popped.
parse_name_unpopped(bytes) ==
    LET count == ReadUntilLen(bytes, SEMICOLON)
    IN IF count > 0
       THEN [some |-> TRUE, name |-> Take(bytes, count), rest |-> Drop(bytes, count)]
       ELSE [some |-> FALSE, name |-> << >>, rest |-> bytes]

\* parse_name: [some, name, rest]; the last byte read is popped whatever it is.
parse_name(bytes) ==
    LET count == ReadUntilLen(bytes, SEMICOLON)
    IN IF count > 0
       THEN [some |-> TRUE, name |-> Take(bytes, count - 1), rest |-> Drop(bytes, count)]
       ELSE [some |-> FALSE, name |-> << >>, rest |-> bytes]

\* Mutant of parse_value: the multiplier stays 1.
parse_value_unsigned(bytes) ==
    LET len == ReadUntilLen(bytes, NEWLINE)
    IN IF len = 0
       THEN [ok |-> FALSE, value |-> 0, rest |-> bytes]
       ELSE [ok |-> TRUE,
             value |-> FoldDigits(Take(bytes, len - 1), 0),
             rest |-> Drop(bytes, len)]

\* parse_value: [ok, value, rest]; digits[0] on an empty read is an index
\* panic (ok = FALSE); the last byte read is dropped whatever it is.
parse_value(bytes) ==
    LET len == ReadUntilLen(bytes, NEWLINE)
        digits == Take(bytes, len)
    IN IF len = 0
       THEN [ok |-> FALSE, value |-> 0, rest |-> bytes]
       ELSE [ok |-> TRUE,
             value |-> FoldDigits(Take(digits, len - 1), 0)
                       * (IF digits[1] = MINUS THEN -1 ELSE 1),
             rest |-> Drop(bytes, len)]

\* line::parse_bytes: [ok, records]; ok = FALSE when parse_value panicked.
\* Each `let` of the loop is a variable bound over a one-element set, so that
\* it is computed once: n the name read, v the value read, r the table after
\* the insert.
RECURSIVE parse_bytes(_, _)
parse_bytes(bytes, records) ==
    CHOOSE out \in
        { IF ~n.some THEN [ok |-> TRUE, records |-> records]
          ELSE CHOOSE line \in
                 { IF ~v.ok THEN [ok |-> FALSE, records |-> records]
                   ELSE CHOOSE rest \in
                          { parse_bytes(v.rest, r) :
                              r \in {Insert(records, n.name, v.value)} } : TRUE :
                   v \in {parse_value(n.rest)} } : TRUE :
          n \in {parse_name(bytes)} } : TRUE

(***************************************************************************)
(* The input: a sequence of observations [name, value] rendered in the     *)
(* input file format `<name>;<value>\n`, the value with one decimal digit. *)
(***************************************************************************)
RECURSIVE DecDigits(_)
DecDigits(n) == IF n < 10 THEN <<ZERO + n>> ELSE DecDigits(n \div 10) \o <<ZERO + (n % 10)>>

FormatValue(v) ==
    (IF v < 0 THEN <<MINUS>> ELSE << >>)
        \o DecDigits(Abs(v) \div 10) \o <<DOT, ZERO + (Abs(v) % 10)>>

RenderLine(o) == o.name \o <<SEMICOLON>> \o FormatValue(o.value) \o <<NEWLINE>>

RECURSIVE RenderLines(_)
RenderLines(obs) ==
    IF obs = << >> THEN << >> ELSE RenderLine(Head(obs)) \o RenderLines(Tail(obs))

\* The stream of a run: the rendered lines, the final '\n' cut off when the
\* stream is not terminated.
RenderStream(obs, terminated) ==
    LET all == RenderLines(obs)
    IN IF terminated \/ all = << >> THEN all ELSE SubSeq(all, 1, Len(all) - 1)

\* The inputs of the model: the runs of up to MaxLines consecutive lines of
\* a cyclic file of four observations.
MasterLines ==
    << [name |-> <<97>>, value |-> 12], [name |-> <<97>>, value |-> -5],
       [name |-> <<98>>, value |-> 12], [name |-> <<98>>, value |-> -5] >>

Window(start, n) ==
    [i \in 1..n |-> MasterLines[((start + i - 2) % Len(MasterLines)) + 1]]

ObservationSeqs == {Window(s, n) : s \in 1..Len(MasterLines), n \in 0..MaxLines}

(***************************************************************************)
(* The state.                                                              *)
(***************************************************************************)
VARIABLES
    callers,        \* the calls of read() made on the one reader instance
    lines,          \* the observations of the input, in file order
    terminated,     \* whether the stream ends with '\n'
    stream,         \* the input byte stream
    stream_error,   \* whether a read of the stream has returned Err
    threads,        \* the thread count given to the coordinator
    chunk_size,     \* RowsReader.chunk_size
    max_chunk_size, \* RowsReader.max_chunk_size
    output_queue,   \* RowsReader.output_queue: frames for the consumers
    input_queue,    \* RowsReader.input_queue: buffers returned by the consumers
    in_progress,    \* RowsReader.in_progress
    closed,         \* RowsReader.closed (the watch channel's value)
    rpc,            \* per read() call: where the call is
    pos,            \* per read() call: bytes of its stream consumed so far
    buffer_export,  \* per read() call: its export buffer
    buffer_new,     \* per read() call: the buffer export_buffer is about to push
    bytes_read,     \* per read() call: the count of its last read_until
    wpc,            \* per worker: where the worker is
    wbuf,           \* per worker: the buffer it holds
    records,        \* per worker: its local StationRecords
    cpc,            \* where the coordinator is
    joined,         \* the number of worker handles the coordinator has awaited
    result,         \* the coordinator's merged table
    output,         \* the exported text
    pushed,         \* history: the frames pushed to output_queue, in push order
    refused_at,     \* history: per read() call that was refused, where the other
                    \* call was at that moment ("" when not refused)
    received,       \* history: per worker, the results of its fill calls in order:
                    \* a frame number, or 0 for None
    last_read,      \* history: the chunk read of the current turn of the loop
                    \* of read(), until export_buffer is entered: the bytes it
                    \* returned, the export buffer after clone_buffer, whether a
                    \* returned buffer was waiting, whether it flushed
    args,           \* a direct call of a library function: its arguments
    rets            \* a direct call of a library function: what it returned

config == <<callers, lines, terminated, stream, stream_error, threads, chunk_size,
           max_chunk_size>>
queues == <<output_queue, input_queue>>
readerLocal == <<rpc, pos, buffer_export, buffer_new, bytes_read>>
workerLocal == <<wpc, wbuf, records>>
coordLocal == <<cpc, joined, result, output>>
history == <<pushed, refused_at, received, last_read>>
call == <<args, rets>>
pipeline == <<config, queues, in_progress, closed, readerLocal, workerLocal, coordLocal, history>>
vars == <<pipeline, call>>

\* No direct call is made in a run of the program.
NoCall == [op |-> "none"]

\* The calls of read() a run may make on its reader instance.
Callers == {1, 2}

\* Mutant of the consumer count: `threads` consumers are run, whatever it is.
NumWorkersAsGiven(n) == n

\* task::read_from_reader: threads <= 1 runs one consumer, else `threads`.
NumWorkers(n) == IF n <= 1 THEN 1 ELSE n
Workers == 1..NumWorkers(threads)

NoBuffer == [id |-> 0, data |-> << >>, cap |-> 0, frame |-> 0]

\* The turn's chunk read is not made yet, or export_buffer was entered.
NoRead == [made |-> FALSE, n |-> 0, len |-> 0, cap |-> 0, waiting |-> FALSE,
           flushed |-> FALSE]

\* A chunk read of n bytes, the export buffer being buf after clone_buffer.
ChunkRead(n, buf, returned, flush) ==
    [made |-> TRUE, n |-> n, len |-> Len(buf.data), cap |-> buf.cap,
     waiting |-> returned # << >>, flushed |-> flush]

\* Vec::with_capacity
VecWithCapacity(id, capacity) == [id |-> id, data |-> << >>, cap |-> capacity, frame |-> 0]

\* Vec::extend_from_slice / Vec::append: amortized growth past the capacity.
VecExtend(buf, bytes) ==
    LET len == Len(buf.data) + Len(bytes)
    IN [buf EXCEPT !.data = buf.data \o bytes,
                   !.cap = IF len > buf.cap THEN Max2(2 * buf.cap, len) ELSE buf.cap]

\* Mutant of fill's clear: the bytes of the frame are left in the buffer.
VecKeep(buf) == [buf EXCEPT !.frame = 0]

\* Vec::clear
VecClear(buf) == [buf EXCEPT !.data = << >>, !.frame = 0]

\* RowsReader::with_chunk_sizes
WithChunkSize(arg) == Max2(MAX_LINE_LENGTH, arg)

ChunkSizeArgs == {1, MAX_LINE_LENGTH}
Headrooms == {4}

\* The byte counts a chunk read may return short of the whole chunk.
ShortReads == {2}

\* The (chunk_size, max_chunk_size) of RowsReader::with_chunk_sizes(arg, max).
ReaderConfigs ==
    {<<WithChunkSize(a), WithChunkSize(a) + MAX_LINE_LENGTH + h>> :
        a \in ChunkSizeArgs, h \in Headrooms}

PipelineStart(calls, threadCounts, inputs, sizes) ==
    /\ callers = calls
    /\ lines \in inputs
    /\ terminated \in (IF lines = << >> THEN {TRUE} ELSE BOOLEAN)
    /\ stream = RenderStream(lines, terminated)
    /\ stream_error = FALSE
    /\ threads \in threadCounts
    /\ \E size \in sizes : chunk_size = size[1] /\ max_chunk_size = size[2]
    /\ output_queue = << >>
    /\ input_queue = << >>
    /\ in_progress = FALSE
    /\ closed = FALSE
    /\ rpc = [c \in Callers |-> "call"]
    /\ pos = [c \in Callers |-> 0]
    /\ buffer_export = [c \in Callers |-> NoBuffer]
    /\ buffer_new = [c \in Callers |-> NoBuffer]
    /\ bytes_read = [c \in Callers |-> 0]
    /\ wpc = [w \in Workers |-> "unspawned"]
    /\ wbuf = [w \in Workers |-> NoBuffer]
    /\ records = [w \in Workers |-> RecordsNew]
    /\ cpc = "spawn"
    /\ joined = 0
    /\ result = RecordsNew
    /\ output = << >>
    /\ pushed = << >>
    /\ refused_at = [c \in Callers |-> ""]
    /\ received = [w \in Workers |-> << >>]
    /\ last_read = NoRead

PipelineInit(calls, threadCounts) ==
    PipelineStart(calls, threadCounts, ObservationSeqs, ReaderConfigs)

InitWith(calls, threadCounts) ==
    /\ PipelineInit(calls, threadCounts)
    /\ args = NoCall
    /\ rets = NoCall

(***************************************************************************)
(* RowsReader::read (reader/models.rs).                                    *)
(***************************************************************************)
\* Mutant of the guard: the flag is stored without being tested.
StoreUnguarded(current, expected, new) == [ok |-> TRUE, value |-> new]

\* AtomicBool::compare_exchange as read() uses it.
compare_exchange(current, expected, new) ==
    IF current = expected
    THEN [ok |-> TRUE, value |-> new]
    ELSE [ok |-> FALSE, value |-> current]

\* Mutant of buffer_full: the room for one more line is not kept.
buffer_full_without_line(buf, chunk) == Len(buf.data) >= buf.cap - chunk

\* capacity() - chunk_size - MAX_LINE_LENGTH on usize goes below zero.
Underflows(buf, chunk) == buf.cap < chunk + MAX_LINE_LENGTH

\* Whether the subtraction panics where buffer_full is reached (n # 0, the
\* || being lazy): below zero a build with overflow checks panics and a
\* build without them wraps around.
SubtractionPanics(n, buf, chunk) ==
    IF n # 0 /\ Underflows(buf, chunk) THEN BOOLEAN ELSE {FALSE}

\* func::buffer_full; a difference that wrapped around is near 2^64, which
\* no length reaches.
buffer_full(buf, chunk) ==
    IF Underflows(buf, chunk) THEN FALSE
    ELSE Len(buf.data) >= buf.cap - chunk - MAX_LINE_LENGTH

\* Mutant of the flush condition: a waiting returned buffer is not looked at.
FlushUnlessWaiting(n, buf, chunk, returned) ==
    n = 0 \/ buffer_full(buf, chunk)

\* The flush condition of read().
FlushTrigger(n, buf, chunk, returned) ==
    n = 0 \/ buffer_full(buf, chunk) \/ returned # << >>

\* What a chunk read of `remaining` unread bytes may return.
ReadSizes(remaining, chunk) ==
    IF remaining = 0 THEN {0}
    ELSE {Min2(chunk, remaining)} \cup {s \in ShortReads : s < remaining}

\* Mutant of the line read: it stops at the next ';'.
LineReadToSemicolon(rest) == ReadUntilLen(rest, SEMICOLON)

\* buffer.read_until(b'\n', &mut buffer_line): the bytes read from the rest
\* of the stream.
LineRead(rest) == ReadUntilLen(rest, NEWLINE)

\* Mutant of the flush's control flow: on EOF the loop signals closed and
\* breaks before the export.
AfterLineCloseFirst(k) == IF k = 0 THEN "close" ELSE "export"

\* After the line read of a flush, export_buffer runs, whatever was read.
AfterLine(k) == "export"

\* Mutant of the test after export_buffer: the loop ends after any flush.
AfterExportClose(k) == "close"

\* After export_buffer: EOF of the line read ends the loop through closed.
AfterExport(k) == IF k = 0 THEN "close" ELSE "read"

\* read(): the in_progress guard, then the allocation of the export buffer.
ReadCall(c) ==
    /\ rpc[c] = "call"
    /\ LET cas == compare_exchange(in_progress, FALSE, TRUE)
       IN /\ in_progress' = cas.value
          /\ IF cas.ok
             THEN /\ rpc' = [rpc EXCEPT ![c] = "read"]
                  /\ buffer_export' =
                        [buffer_export EXCEPT ![c] = VecWithCapacity(-c, max_chunk_size)]
                  /\ UNCHANGED refused_at
             ELSE /\ rpc' = [rpc EXCEPT ![c] = "panicked"]
                  /\ refused_at' = [refused_at EXCEPT
                                      ![c] = rpc[CHOOSE d \in Callers : d # c]]
                  /\ UNCHANGED buffer_export
    /\ UNCHANGED <<call, config, queues, closed, pos, buffer_new, bytes_read,
                   workerLocal, coordLocal, pushed, received, last_read>>

\* One turn of the loop: the chunk read, clone_buffer, the flush test and,
\* when it fires, the line read and transfer_buffer.
ReadChunk(c) ==
    /\ rpc[c] = "read"
    /\ \E n \in ReadSizes(Len(stream) - pos[c], chunk_size) :
          LET cloned == VecExtend(buffer_export[c], SubSeq(stream, pos[c] + 1, pos[c] + n))
              flush == FlushTrigger(n, cloned, chunk_size, input_queue)
              k == LineRead(Drop(stream, pos[c] + n))
              line == SubSeq(stream, pos[c] + n + 1, pos[c] + n + k)
          IN \E panics \in SubtractionPanics(n, cloned, chunk_size) :
                /\ last_read' = ChunkRead(n, cloned, input_queue, flush /\ ~panics)
                /\ IF panics
                   THEN /\ pos' = [pos EXCEPT ![c] = pos[c] + n]
                        /\ buffer_export' = [buffer_export EXCEPT ![c] = cloned]
                        /\ rpc' = [rpc EXCEPT ![c] = "failed"]
                        /\ cpc' = "aborted"
                        /\ UNCHANGED bytes_read
                   ELSE IF flush
                   THEN /\ pos' = [pos EXCEPT ![c] = pos[c] + n + k]
                        /\ buffer_export' =
                              [buffer_export EXCEPT ![c] = VecExtend(cloned, line)]
                        /\ bytes_read' = [bytes_read EXCEPT ![c] = k]
                        /\ rpc' = [rpc EXCEPT ![c] = AfterLine(k)]
                        /\ UNCHANGED cpc
                   ELSE /\ pos' = [pos EXCEPT ![c] = pos[c] + n]
                        /\ buffer_export' = [buffer_export EXCEPT ![c] = cloned]
                        /\ UNCHANGED <<bytes_read, rpc, cpc>>
    /\ UNCHANGED <<call, config, queues, in_progress, closed, buffer_new,
                   workerLocal, joined, result, output, pushed, refused_at, received>>

\* Mutant of the unwrap of a read's result: Err is taken as end of stream.
AfterReadErrorEof == "close"

\* .unwrap() of a read's Err: the call panics.
AfterReadError == "failed"

\* The stream returns Err to the chunk read, or to the line read of a flush
\* after a chunk read and clone_buffer: the unwrap panics inside main's
\* join!, which drops the coordinator's future with it.
ReadFail(c) ==
    /\ rpc[c] = "read"
    /\ ~stream_error
    /\ stream_error' = TRUE
    /\ \/ UNCHANGED <<pos, buffer_export, last_read>>
       \/ \E n \in ReadSizes(Len(stream) - pos[c], chunk_size) :
             LET cloned == VecExtend(buffer_export[c],
                                     SubSeq(stream, pos[c] + 1, pos[c] + n))
             IN /\ FlushTrigger(n, cloned, chunk_size, input_queue)
                /\ pos' = [pos EXCEPT ![c] = pos[c] + n]
                /\ buffer_export' = [buffer_export EXCEPT ![c] = cloned]
                /\ last_read' = ChunkRead(n, cloned, input_queue, TRUE)
    /\ rpc' = [rpc EXCEPT ![c] = AfterReadError]
    /\ cpc' = IF AfterReadError = "failed" THEN "aborted" ELSE cpc
    /\ UNCHANGED <<call, callers, lines, terminated, stream, threads, chunk_size,
                   max_chunk_size, queues, in_progress, closed, buffer_new, bytes_read,
                   workerLocal, joined, result, output, pushed, refused_at, received>>

\* Mutant of export_buffer's test: an empty export buffer is exported too.
ExportSkipsNothing(buf) == FALSE

\* export_buffer: `if !buffer_export.is_empty() { .. } else { 0 }`.
ExportSkips(buf) == buf.data = << >>

\* export_buffer: an empty export buffer is skipped; else a returned buffer
\* is awaited from input_queue and swapped with the export buffer.
ExportAcquire(c) ==
    /\ rpc[c] = "export"
    /\ IF ExportSkips(buffer_export[c])
       THEN /\ rpc' = [rpc EXCEPT ![c] = AfterExport(bytes_read[c])]
            /\ UNCHANGED <<input_queue, buffer_export, buffer_new>>
       ELSE /\ input_queue # << >>
            /\ input_queue' = Tail(input_queue)
            /\ buffer_new' = [buffer_new EXCEPT ![c] = buffer_export[c]]
            /\ buffer_export' = [buffer_export EXCEPT ![c] = Head(input_queue)]
            /\ rpc' = [rpc EXCEPT ![c] = "push"]
    /\ last_read' = NoRead
    /\ UNCHANGED <<call, config, output_queue, in_progress, closed, pos, bytes_read,
                   workerLocal, coordLocal, pushed, refused_at, received>>

\* Mutant of the push: the frame is put at the head of the queue.
QueuePushFront(queue, buf) == <<buf>> \o queue

\* output_queue.push(buffer_new): the queue is first in, first out.
QueuePush(queue, buf) == Append(queue, buf)

\* export_buffer: the swapped-out buffer goes to output_queue.
ExportPush(c) ==
    /\ rpc[c] = "push"
    /\ output_queue' =
          QueuePush(output_queue, [buffer_new[c] EXCEPT !.frame = Len(pushed) + 1])
    /\ pushed' = Append(pushed, buffer_new[c].data)
    /\ buffer_new' = [buffer_new EXCEPT ![c] = NoBuffer]
    /\ rpc' = [rpc EXCEPT ![c] = AfterExport(bytes_read[c])]
    /\ UNCHANGED <<call, config, input_queue, in_progress, closed, pos, buffer_export,
                   bytes_read, workerLocal, coordLocal, refused_at, received, last_read>>

\* closed.send_replace(true); break.
ReadClose(c) ==
    /\ rpc[c] = "close"
    /\ closed' = TRUE
    /\ rpc' = [rpc EXCEPT ![c] = "done"]
    /\ UNCHANGED <<call, config, queues, in_progress, pos, buffer_export, buffer_new,
                   bytes_read, workerLocal, coordLocal, history>>

(***************************************************************************)
(* The consumers: RowsReader::fill and RowsReader::closed                  *)
(* (reader/models.rs), driven by StationRecords::read_from_reader          *)
(* (parser/models.rs).                                                     *)
(***************************************************************************)
\* Mutant of closed(): it returns as soon as the flag is set, without
\* waiting for output_queue to drain.
ClosedReturnsOnFlag(flag, queue) == flag

\* closed() returns once wait_for has seen the flag and output_queue is
\* empty.  The flag is never reset, so the two reads are modelled as one.
ClosedReturns(flag, queue) == flag /\ queue = << >>

\* Mutant of fill: the buffer is returned twice.
ReturnTwice(queue, buf) == Append(Append(queue, buf), buf)

\* Mutant of fill: the consumer keeps its buffer instead of returning it.
KeepBuffer(queue, buf) == queue

\* input_queue.push(buffer)
ReturnBuffer(queue, buf) == Append(queue, buf)

\* Mutant of the pop: the frame is read but left at the head of the queue.
QueuePeek(queue) == queue

\* What output_queue.pop() leaves in the queue.
QueuePop(queue) == Tail(queue)

\* fill: the consumer's buffer is cleared and returned through input_queue.
Fill(w) ==
    /\ wpc[w] = "fill"
    /\ input_queue' = ReturnBuffer(input_queue, VecClear(wbuf[w]))
    /\ wbuf' = [wbuf EXCEPT ![w] = NoBuffer]
    /\ wpc' = [wpc EXCEPT ![w] = "select"]
    /\ UNCHANGED <<call, config, output_queue, in_progress, closed, readerLocal,
                   records, coordLocal, history>>

\* fill: the select's output_queue.pop() branch completes with a frame, and
\* read_from_reader parses the frame whole into the local table.
FillPop(w) ==
    /\ wpc[w] = "select"
    /\ output_queue # << >>
    /\ wbuf' = [wbuf EXCEPT ![w] = Head(output_queue)]
    /\ output_queue' = QueuePop(output_queue)
    /\ received' = [received EXCEPT ![w] = Append(received[w], Head(output_queue).frame)]
    /\ LET parsed == parse_bytes(Head(output_queue).data, records[w])
       IN /\ records' = [records EXCEPT ![w] = parsed.records]
          /\ wpc' = [wpc EXCEPT ![w] = IF parsed.ok THEN "fill" ELSE "panicked"]
    /\ UNCHANGED <<call, config, input_queue, in_progress, closed, readerLocal,
                   coordLocal, pushed, refused_at, last_read>>

\* fill: the select's closed() branch completes: None, and the loop ends.
FillNone(w) ==
    /\ wpc[w] = "select"
    /\ ClosedReturns(closed, output_queue)
    /\ wpc' = [wpc EXCEPT ![w] = "done"]
    /\ received' = [received EXCEPT ![w] = Append(received[w], 0)]
    /\ UNCHANGED <<call, config, queues, in_progress, closed, readerLocal,
                   wbuf, records, coordLocal, pushed, refused_at,
                   last_read>>

(***************************************************************************)
(* The coordinator: task::read_from_reader (parser/task.rs).               *)
(***************************************************************************)
\* tokio::spawn of every consumer; each allocates its table and its buffer.
Spawn ==
    /\ cpc = "spawn"
    /\ wpc' = [w \in Workers |-> "fill"]
    /\ wbuf' = [w \in Workers |-> VecWithCapacity(w, max_chunk_size)]
    /\ cpc' = "join"
    /\ UNCHANGED <<call, config, queues, in_progress, closed, readerLocal,
                   records, joined, result, output, history>>

\* Mutant of handle.await: the handle yields while its task still runs.
HandleReadyEarly(state) == state # "unspawned"

\* handle.await: the JoinHandle yields once its task has ended.
HandleReady(state) == state \in {"done", "panicked"}

\* handle.await.unwrap(): with one consumer its table is the result; else the
\* handles are awaited in spawn order and each table is merged in.
Join ==
    /\ cpc = "join"
    /\ LET w == joined + 1
       IN /\ HandleReady(wpc[w])
          /\ joined' = w
          /\ IF wpc[w] = "panicked"
             THEN /\ cpc' = "panicked"
                  /\ UNCHANGED result
             ELSE /\ result' = IF threads <= 1 THEN records[w]
                               ELSE RecordsAdd(result, records[w])
                  /\ cpc' = IF w = NumWorkers(threads) THEN "returned" ELSE "join"
    /\ UNCHANGED <<call, config, queues, in_progress, closed, readerLocal,
                   workerLocal, output, history>>

(***************************************************************************)
(* Export (parser/models.rs): iter_sorted, StationStats::export_text,      *)
(* StationRecords::export_text.  An f32 is [neg, m, e], the value          *)
(* (-1)^neg * m * 2^(-e); a quotient's m is in [2^23, 2^24) or zero.       *)
(***************************************************************************)
RECURSIVE Pow2(_)
Pow2(n) == IF n = 0 THEN 1 ELSE 2 * Pow2(n - 1)

\* n / d rounded to the nearest integer, ties to even.
RoundHalfEven(n, d) ==
    LET q == n \div d
        r == n % d
    IN IF 2 * r > d \/ (2 * r = d /\ q % 2 = 1) THEN q + 1 ELSE q

\* `x as f32` of an integer below 2^24: exact.
F32FromInt(x) == [neg |-> x < 0, m |-> Abs(x), e |-> 0]

RECURSIVE NormShift(_, _, _)
NormShift(n, d, k) == IF n * Pow2(k) >= Pow2(23) * d THEN k ELSE NormShift(n, d, k + 1)

\* f32 division, correctly rounded (round to nearest, ties to even).
\* The operands x, y, the shift k and the rounded significand m0 are
\* variables bound over one-element sets, so that each is computed once.
F32Quotient(x, y, k) ==
    CHOOSE q \in
        { IF m0 = Pow2(24)
          THEN [neg |-> x.neg # y.neg, m |-> Pow2(23), e |-> x.e - y.e + k - 1]
          ELSE [neg |-> x.neg # y.neg, m |-> m0, e |-> x.e - y.e + k] :
          m0 \in {RoundHalfEven(x.m * Pow2(k), y.m)} } : TRUE

F32Div(a, b) ==
    CHOOSE q \in
        { IF x.m = 0 THEN [neg |-> x.neg # y.neg, m |-> 0, e |-> 0]
          ELSE CHOOSE r \in {F32Quotient(x, y, k) : k \in {NormShift(x.m, y.m, 0)}} : TRUE :
          x \in {a}, y \in {b} } : TRUE

\* format!("{:.1}", x): the exact value rounded to one decimal, ties to even;
\* the sign of a negative value is kept when it rounds to zero.
FormatF32(x) ==
    CHOOSE text \in
        { LET tenths == IF v.e > 30 THEN 0 ELSE RoundHalfEven(v.m * 10, Pow2(v.e))
          IN (IF v.neg THEN <<MINUS>> ELSE << >>)
                \o DecDigits(tenths \div 10) \o <<DOT, ZERO + (tenths % 10)>> :
          v \in {x} } : TRUE

\* StationStats::export_text: "{name}={min:.1}/{avg:.1}/{max:.1}".
StatsExportText(s, name) ==
    LET ten == F32FromInt(10)
    IN name \o <<61>>
          \o FormatF32(F32Div(F32FromInt(s.min), ten)) \o <<47>>
          \o FormatF32(F32Div(F32Div(F32FromInt(s.sum), F32FromInt(s.count)), ten)) \o <<47>>
          \o FormatF32(F32Div(F32FromInt(s.max), ten))

\* Ord of LiteHashBuffer (derived): lexicographic on the bytes.
RECURSIVE LexLess(_, _)
LexLess(a, b) ==
    IF b = << >> THEN FALSE
    ELSE IF a = << >> THEN TRUE
    ELSE IF Head(a) # Head(b) THEN Head(a) < Head(b)
    ELSE LexLess(Tail(a), Tail(b))

RECURSIVE InsertSorted(_, _)
InsertSorted(sorted, k) ==
    IF sorted = << >> THEN <<k>>
    ELSE IF LexLess(k, Head(sorted)) THEN <<k>> \o sorted
    ELSE <<Head(sorted)>> \o InsertSorted(Tail(sorted), k)

RECURSIVE SortFrom(_, _)
SortFrom(names, sorted) ==
    IF names = << >> THEN sorted
    ELSE SortFrom(Tail(names), InsertSorted(sorted, Head(names)))

\* Mutant of iter_sorted: the keys are left in the map's iteration order.
KeepOrder(names) == names

\* names.sort()
SortNames(names) == SortFrom(names, << >>)

\* stats.keys(): the keys, once each, in an order the hash map chooses.
KeyOrders(table) ==
    {o \in [1..Cardinality(DOMAIN table) -> DOMAIN table] :
        \A i, j \in DOMAIN o : i # j => o[i] # o[j]}

\* iter_sorted: the (name, stats) pairs in sorted key order.
iter_sorted(table, order) ==
    LET names == SortNames(order)
    IN [i \in 1..Len(names) |-> <<names[i], table[names[i]]>>]

RECURSIVE JoinEntries(_, _)
JoinEntries(entries, i) ==
    IF i > Len(entries) THEN << >>
    ELSE (IF i > 1 THEN <<44, 32>> ELSE << >>)
            \o StatsExportText(entries[i][2], entries[i][1])
            \o JoinEntries(entries, i + 1)

\* StationRecords::export_text
export_text(table, order) ==
    CHOOSE text \in
        { <<123>> \o JoinEntries(entries, 1) \o <<125, NEWLINE>> :
          entries \in {iter_sorted(table, order)} } : TRUE

\* main: records.export_file(output) once the coordinator has returned.
Export ==
    /\ cpc = "returned"
    /\ \E order \in KeyOrders(result) : output' = export_text(result, order)
    /\ cpc' = "exported"
    /\ UNCHANGED <<call, config, queues, in_progress, closed, readerLocal,
                   workerLocal, joined, result, history>>

(***************************************************************************)
(* The specification.                                                      *)
(***************************************************************************)
Next ==
    \/ \E c \in callers : ReadCall(c)
    \/ \E c \in callers : ReadChunk(c)
    \/ \E c \in callers : ExportAcquire(c)
    \/ \E c \in callers : ExportPush(c)
    \/ \E c \in callers : ReadClose(c)
    \/ \E w \in Workers : Fill(w)
    \/ \E w \in Workers : FillPop(w)
    \/ \E w \in Workers : FillNone(w)
    \/ Spawn
    \/ Join
    \/ Export

\* The program: one call of read(), as main makes it.
Init == InitWith({1}, 0..MaxThreads)
Spec == Init /\ [][Next]_vars

\* The reader instance misused: read() is called twice on it, at any two
\* moments of a run with one consumer.
InitTwoCalls == InitWith(Callers, {1})
SpecTwoCalls == InitTwoCalls /\ [][Next]_vars

\* The program on a stream whose reads may fail.
InitReadError == InitWith({1}, 1..MaxThreads)
NextReadError == Next \/ \E c \in callers : ReadFail(c)
SpecReadError == InitReadError /\ [][NextReadError]_vars

\* The program under the runtime's scheduling: every task that can take a
\* step eventually takes one.
WorkerIds == 1..NumWorkers(MaxThreads)
ReaderStep(c) ==
    /\ c \in callers
    /\ ReadCall(c) \/ ReadChunk(c) \/ ExportAcquire(c) \/ ExportPush(c) \/ ReadClose(c)
WorkerStep(w) ==
    /\ w \in Workers
    /\ Fill(w) \/ FillPop(w) \/ FillNone(w)
CoordStep == Spawn \/ Join \/ Export
FairSpec ==
    /\ Spec
    /\ \A c \in Callers : WF_vars(ReaderStep(c))
    /\ \A w \in WorkerIds : WF_vars(WorkerStep(w))
    /\ WF_vars(CoordStep)

(***************************************************************************)
(* Reference values, computed from the observations and the stream, not    *)
(* through the pipeline.                                                   *)
(***************************************************************************)
Returned == cpc \in {"returned", "exported"}
AllWorkersDone == \A w \in Workers : wpc[w] = "done"

ObsNames(obs) == {obs[i].name : i \in DOMAIN obs}
ObsValues(obs, name) == {i \in DOMAIN obs : obs[i].name = name}

RECURSIVE ObsSum(_, _)
ObsSum(obs, idx) ==
    IF idx = {} THEN 0
    ELSE LET i == CHOOSE x \in idx : TRUE IN obs[i].value + ObsSum(obs, idx \ {i})

ObsMin(obs, idx) == CHOOSE v \in {obs[i].value : i \in idx} :
                        \A u \in {obs[i].value : i \in idx} : v <= u
ObsMax(obs, idx) == CHOOSE v \in {obs[i].value : i \in idx} :
                        \A u \in {obs[i].value : i \in idx} : v >= u

RECURSIVE Flatten(_)
Flatten(frames) ==
    IF frames = << >> THEN << >> ELSE Head(frames) \o Flatten(Tail(frames))

\* How often frame f was returned by a fill, and how often it sits in the queue.
Deliveries(f) ==
    Cardinality({p \in UNION {{<<w, i>> : i \in DOMAIN received[w]} : w \in Workers} :
                    received[p[1]][p[2]] = f})
InQueue(f) == Cardinality({i \in DOMAIN output_queue : output_queue[i].frame = f})

GotFrame(w) == \E i \in DOMAIN received[w] : received[w][i] # 0

(***************************************************************************)
(* The claims.                                                             *)
(***************************************************************************)

\* C1: count conservation.  For a stream ending in '\n', once the
\* coordinator has returned, the counts of the final table add up to the
\* number of input lines.
CountConservation ==
    (terminated /\ Returned) => RecordsLen(result) = Len(lines)

CountConservationWitness ==
    /\ Returned /\ terminated /\ threads >= 2
    /\ Len(lines) >= 2 /\ Len(pushed) >= 2
    /\ \A w \in Workers : GotFrame(w)

\* C2: exactly-once frame delivery.  Every frame pushed is either still in
\* output_queue or was returned by exactly one fill, never both and never
\* twice; once every consumer has ended, every frame was returned once.
ExactlyOnceDelivery ==
    \A f \in 1..Len(pushed) :
        /\ Deliveries(f) + InQueue(f) = 1
        /\ AllWorkersDone => Deliveries(f) = 1

ExactlyOnceDeliveryWitness ==
    /\ AllWorkersDone /\ threads >= 2 /\ Len(pushed) >= 2
    /\ \A w \in Workers : GotFrame(w)

\* C3: fill returns None to a consumer only when closed is set, output_queue
\* is empty, the reader has pushed the whole stream and every frame pushed
\* was returned to some consumer; None is the last result of the consumer's
\* loop and so comes exactly once.
NoneOnlyAtEnd ==
    \A w \in Workers :
        /\ \A i \in DOMAIN received[w] : received[w][i] = 0 => i = Len(received[w])
        /\ wpc[w] = "done" <=>
              (received[w] # << >> /\ received[w][Len(received[w])] = 0)
        /\ wpc[w] = "done" =>
              /\ closed
              /\ output_queue = << >>
              /\ Flatten(pushed) = stream
              /\ \A f \in 1..Len(pushed) : Deliveries(f) = 1

NoneOnlyAtEndWitness ==
    /\ threads >= 2 /\ Len(pushed) >= 2
    /\ \E w, v \in Workers : wpc[w] = "done" /\ wpc[v] = "fill" /\ GotFrame(w) /\ GotFrame(v)

\* C4: the final flush happens before the closed signal.  Whenever closed is
\* set, the reader holds no frame, its loop has ended and the frames pushed
\* so far are the whole stream, so that nothing is pushed afterwards.
FlushBeforeClosed ==
    closed =>
        /\ \A c \in callers :
              /\ buffer_export[c].data = << >>
              /\ buffer_new[c] = NoBuffer
              /\ rpc[c] \in {"done", "panicked"}
        /\ Flatten(pushed) = stream

FlushBeforeClosedWitness ==
    closed /\ output_queue # << >> /\ Len(pushed) >= 2

\* C5: termination.  Under fair scheduling the reader sets closed, every
\* consumer gets None and ends, and the coordinator returns; and in no state
\* is the reader waiting for a returned buffer while every consumer waits
\* for a frame.
ReaderBlocked ==
    \E c \in callers :
        rpc[c] = "export" /\ buffer_export[c].data # << >> /\ input_queue = << >>
WorkerBlocked(w) == wpc[w] = "select" /\ output_queue = << >> /\ ~closed
NoDeadlock == ~(ReaderBlocked /\ \A w \in Workers : WorkerBlocked(w))

Termination ==
    /\ []NoDeadlock
    /\ <>[](closed /\ AllWorkersDone /\ Returned)

TerminationWitness ==
    /\ closed /\ AllWorkersDone /\ cpc = "returned"
    /\ threads >= 2 /\ Len(pushed) >= 2 /\ \A w \in Workers : GotFrame(w)

\* C6: output determinism.  The final table and the exported text are
\* functions of the input stream alone: whatever the thread count, the sizes
\* of the chunk reads, the interleaving and the hash map's iteration order,
\* the table equals the one a single parse of the whole stream gives, and
\* the text is that table's export.
SingleParse == parse_bytes(stream, RecordsNew).records

OutputDeterminism ==
    /\ Returned => result = SingleParse
    /\ cpc = "exported" =>
          output = export_text(SingleParse, CHOOSE o \in KeyOrders(SingleParse) : TRUE)

OutputDeterminismWitness ==
    /\ cpc = "exported" /\ threads >= 2 /\ Len(lines) >= 2
    /\ \A w \in Workers : GotFrame(w)
    /\ \E name \in DOMAIN result : \A w \in Workers : name \in DOMAIN records[w]

\* C7: sum conservation.  For a stream ending in '\n', the final table holds
\* exactly the stations of the input, each with the sum of its values.
SumConservation ==
    (terminated /\ Returned) =>
        /\ DOMAIN result = ObsNames(lines)
        /\ \A name \in ObsNames(lines) :
              result[name].sum = ObsSum(lines, ObsValues(lines, name))

SumConservationWitness ==
    /\ Returned /\ terminated /\ threads <= 1
    /\ \E name \in DOMAIN result : result[name].count >= 2 /\ result[name].sum = 7

\* C8: min/max tightness.  For a stream ending in '\n', each station's final
\* min and max are the least and the greatest of its values.
MinMaxTightness ==
    (terminated /\ Returned) =>
        \A name \in ObsNames(lines) :
            /\ name \in DOMAIN result
            /\ result[name].min = ObsMin(lines, ObsValues(lines, name))
            /\ result[name].max = ObsMax(lines, ObsValues(lines, name))

MinMaxTightnessWitness ==
    /\ Returned /\ terminated /\ threads >= 2
    /\ \A w \in Workers : GotFrame(w)
    /\ \E name \in DOMAIN result : result[name].min < result[name].max

\* C9: frame line-alignment.  The frames pushed are consecutive non-empty
\* slices of the stream, each starting at a line start and ending with '\n',
\* but for the last frame of a stream that does not end with '\n'; and the
\* frames in the queue or with a consumer are the frames pushed.
FrameEnd(i) == Len(Flatten(SubSeq(pushed, 1, i)))

FrameAlignment ==
    /\ \A i \in 1..Len(pushed) :
          LET b == FrameEnd(i - 1)
              e == FrameEnd(i)
          IN /\ b < e /\ e <= Len(stream)
             /\ pushed[i] = SubSeq(stream, b + 1, e)
             /\ b = 0 \/ stream[b] = NEWLINE
             /\ stream[e] = NEWLINE \/ (~terminated /\ e = Len(stream))
    /\ \A i \in DOMAIN output_queue :
          output_queue[i].data = pushed[output_queue[i].frame]
    /\ \A w \in Workers :
          wbuf[w].frame # 0 => wbuf[w].data = pushed[wbuf[w].frame]

FrameAlignmentWitness ==
    /\ Len(pushed) >= 2 /\ closed /\ ~terminated
    /\ \E w \in Workers : wbuf[w].frame = Len(pushed)

\* C10: read runs at most once per instance.  Of two calls on one instance
\* at most one gets past the guard; once both were made exactly one was
\* refused; the refused call has read nothing from its stream, allocated and
\* pushed nothing, and it was refused wherever the other call was, also
\* after its end.
ReadAtMostOnce ==
    /\ Cardinality({c \in Callers : rpc[c] \notin {"call", "panicked"}}) <= 1
    /\ (\A c \in Callers : rpc[c] # "call") =>
          Cardinality({c \in Callers : rpc[c] = "panicked"}) = 1
    /\ \A c \in Callers :
          rpc[c] = "panicked" =>
              /\ pos[c] = 0
              /\ buffer_export[c] = NoBuffer
              /\ buffer_new[c] = NoBuffer
              /\ refused_at[c] \notin {"", "call", "panicked"}
              /\ Flatten(pushed) = SubSeq(stream, 1, Len(Flatten(pushed)))

ReadAtMostOnceWitness ==
    \E c \in Callers : rpc[c] = "panicked" /\ refused_at[c] = "done" /\ pushed # << >>

(***************************************************************************)
(* Direct calls of the library's functions, as its unit tests make them:   *)
(* the arguments are drawn at the start, one step makes the calls.  The    *)
(* pipeline stays as constructed.                                          *)
(***************************************************************************)
Idle == PipelineInit({1}, {1}) /\ lines = << >>

\* The tables of the calls are built as the tests build them: by inserts
\* into a new table.
CallNames == {<<97>>, <<98>>}
CallValues == {-5, 12}

RECURSIVE InsertAll(_, _)
InsertAll(table, obs) ==
    IF obs = << >> THEN table
    ELSE InsertAll(Insert(table, Head(obs).name, Head(obs).value), Tail(obs))

CallObs == UNION {[1..n -> [name : CallNames, value : CallValues]] : n \in 0..MaxLines}
Tables == {InsertAll(RecordsNew, obs) : obs \in CallObs}

\* records1 + records2 (test::station_records_add), in every grouping and
\* order of three tables, and with StationRecords::new() on either side.
InitAdd ==
    /\ Idle
    /\ args \in [op : {"add"}, a : Tables, b : Tables, c : Tables]
    /\ rets = NoCall

AddTables ==
    /\ args.op = "add" /\ rets.op = "none"
    /\ rets' = [op |-> "add",
                ab |-> RecordsAdd(args.a, args.b),
                ba |-> RecordsAdd(args.b, args.a),
                ab_c |-> RecordsAdd(RecordsAdd(args.a, args.b), args.c),
                a_bc |-> RecordsAdd(args.a, RecordsAdd(args.b, args.c)),
                a_new |-> RecordsAdd(args.a, RecordsNew),
                new_a |-> RecordsAdd(RecordsNew, args.a)]
    /\ UNCHANGED <<args, pipeline>>

NextAdd == AddTables
SpecAdd == InitAdd /\ [][NextAdd]_vars

\* C11: merge identity.  A table merged with the empty table, on either
\* side, is the table itself.
MergeIdentity ==
    rets.op = "add" => rets.a_new = args.a /\ rets.new_a = args.a

MergeIdentityWitness ==
    rets.op = "add" /\ Cardinality(DOMAIN args.a) >= 2 /\ rets.new_a = args.a

\* C12: the table merge is associative and commutative: (a+b)+c = a+(b+c)
\* and a+b = b+a, with equal key sets and equal min, max, sum and count for
\* every key.
MergeAssocComm ==
    rets.op = "add" =>
        /\ rets.ab_c = rets.a_bc
        /\ rets.ab = rets.ba
        /\ DOMAIN rets.ab = DOMAIN args.a \cup DOMAIN args.b

MergeAssocCommWitness ==
    /\ rets.op = "add"
    /\ DOMAIN args.a # DOMAIN args.b /\ DOMAIN args.b # DOMAIN args.c
    /\ \E k \in DOMAIN args.a \cap DOMAIN args.b \cap DOMAIN args.c :
          /\ args.a[k] # args.b[k] /\ args.b[k] # args.c[k]
          /\ rets.ab_c[k].count = args.a[k].count + args.b[k].count + args.c[k].count

\* stats1 + stats2 on StationStats: the stats the tables hold, the stats of
\* the extreme values, and StationStats::default().
CallStats ==
    {StatsDefault, StatsNew(I16_MAX), StatsNew(I16_MIN)}
        \cup UNION {{t[k] : k \in DOMAIN t} : t \in Tables}

InitStatsAdd ==
    /\ Idle
    /\ args \in [op : {"stats_add"}, a : CallStats, b : CallStats, c : CallStats]
    /\ rets = NoCall

AddStats ==
    /\ args.op = "stats_add" /\ rets.op = "none"
    /\ rets' = [op |-> "stats_add",
                ab |-> StatsAdd(args.a, args.b),
                ba |-> StatsAdd(args.b, args.a),
                ab_c |-> StatsAdd(StatsAdd(args.a, args.b), args.c),
                a_bc |-> StatsAdd(args.a, StatsAdd(args.b, args.c)),
                a_default |-> StatsAdd(args.a, StatsDefault),
                default_a |-> StatsAdd(StatsDefault, args.a)]
    /\ UNCHANGED <<args, pipeline>>

NextStatsAdd == AddStats
SpecStatsAdd == InitStatsAdd /\ [][NextStatsAdd]_vars

\* C13: the StationStats merge is componentwise (min of mins, max of maxes,
\* sum of sums, sum of counts), associative and commutative, and the default
\* record (min = INT16_MAX, max = INT16_MIN, sum = 0, count = 0) is its
\* identity on both sides.
StatsMergeAlgebra ==
    /\ StatsDefault = [min |-> 32767, max |-> -32768, sum |-> 0, count |-> 0]
    /\ rets.op = "stats_add" =>
          /\ rets.ab.min = (IF args.a.min <= args.b.min THEN args.a.min ELSE args.b.min)
          /\ rets.ab.max = (IF args.a.max >= args.b.max THEN args.a.max ELSE args.b.max)
          /\ rets.ab.sum = args.a.sum + args.b.sum
          /\ rets.ab.count = args.a.count + args.b.count
          /\ rets.ab = rets.ba
          /\ rets.ab_c = rets.a_bc
          /\ rets.a_default = args.a
          /\ rets.default_a = args.a

StatsMergeAlgebraWitness ==
    /\ rets.op = "stats_add"
    /\ args.a.max < args.b.max /\ args.b.min > args.c.min
    /\ args.a.count >= 2 /\ args.c.count >= 2
    /\ rets.default_a = args.a

\* records.insert(name, value) on a table, then records.get of every name
\* (test::station_records_insert); <<99>> is a name no table holds.
ProbeNames == CallNames \cup {<<99>>}

InitInsert ==
    /\ Idle
    /\ args \in [op : {"insert"}, t : Tables, name : CallNames, value : CallValues \cup {0}]
    /\ rets = NoCall

InsertThenGet ==
    /\ args.op = "insert" /\ rets.op = "none"
    /\ \E after \in {Insert(args.t, args.name, args.value)} :
          rets' = [op |-> "insert",
                   after |-> after,
                   got |-> [k \in ProbeNames |-> Get(after, k)]]
    /\ UNCHANGED <<args, pipeline>>

NextInsert == InsertThenGet
SpecInsert == InitInsert /\ [][NextInsert]_vars

\* C14: insert is create-or-extend.  A present key's stats change as by
\* extend(value); an absent key gets min = max = sum = value, count = 1; the
\* stats of every other key are as before, and get of a key never inserted
\* is none.
InsertCreateOrExtend ==
    rets.op = "insert" =>
        LET t == args.t
            n == args.name
            v == args.value
        IN /\ n \in DOMAIN t =>
                rets.got[n] = {[min |-> IF v < t[n].min THEN v ELSE t[n].min,
                                max |-> IF v > t[n].max THEN v ELSE t[n].max,
                                sum |-> t[n].sum + v,
                                count |-> t[n].count + 1]}
           /\ n \notin DOMAIN t =>
                rets.got[n] = {[min |-> v, max |-> v, sum |-> v, count |-> 1]}
           /\ \A k \in ProbeNames \ {n} :
                rets.got[k] = (IF k \in DOMAIN t THEN {t[k]} ELSE {})
           /\ DOMAIN rets.after = DOMAIN t \cup {n}

InsertCreateOrExtendWitness ==
    /\ rets.op = "insert"
    /\ args.name \in DOMAIN args.t /\ Cardinality(DOMAIN args.t) >= 2
    /\ args.value < args.t[args.name].min
    /\ rets.got[<<99>>] = {}

(***************************************************************************)
(* The SIMD parser (parser/simd_parser.rs) and digits_to_number            *)
(* (parser/func.rs).                                                       *)
(***************************************************************************)
IsSeparator(b) == b = SEMICOLON \/ b = NEWLINE

\* The ids of a filter over an ascending range, in the range's order.
InOrder(ids) ==
    [k \in 1..Cardinality(ids) |->
        CHOOSE id \in ids : Cardinality({other \in ids : other < id}) = k - 1]

\* chunk.iter().enumerate().filter_map(..): the 0-based ids of the separators
\* from the i-th byte on.
SeparatorIds(chunk, i) ==
    InOrder({at - 1 : at \in {j \in i..Len(chunk) : IsSeparator(chunk[j])}})

\* Mutant of the mask: only the comparison with '\n' is taken.
MaskIdsNewlineOnly(chunk, lane) ==
    InOrder({l \in lane..(LANE_WIDTH - 1) : chunk[l + 1] = NEWLINE})

\* (0..LANE_WIDTH).filter(|i| mask.test(*i)) on Simd::from_slice(chunk): the
\* lanes of the first LANE_WIDTH bytes that hold a separator.
MaskIds(chunk, lane) ==
    InOrder({l \in lane..(LANE_WIDTH - 1) : IsSeparator(chunk[l + 1])})

\* [0].chain(ids).map_windows(|[x, y]| if x == 0 { y - x } else { y - x - 1 })
MapWindows(ids) ==
    CHOOSE widths \in
        { [j \in 1..(Len(chained) - 1) |->
              IF chained[j] = 0 THEN chained[j + 1] - chained[j]
              ELSE chained[j + 1] - chained[j] - 1] : chained \in {<<0>> \o ids} } : TRUE

\* Mutant of array_chunks: a last odd item is kept, paired with 0.
ArrayChunksKeepOdd(widths) ==
    [k \in 1..((Len(widths) + 1) \div 2) |->
        <<widths[2 * k - 1], IF 2 * k <= Len(widths) THEN widths[2 * k] ELSE 0>>]

\* .array_chunks::<2>().collect(): whole pairs only, a last odd item is left out.
ArrayChunks2(widths) ==
    [k \in 1..(Len(widths) \div 2) |-> <<widths[2 * k - 1], widths[2 * k]>>]

find_separators_simd(chunk) == ArrayChunks2(MapWindows(MaskIds(chunk, 0)))
find_separators_iter(chunk) == ArrayChunks2(MapWindows(SeparatorIds(chunk, 1)))

find_separators(chunk) ==
    IF Len(chunk) >= LANE_WIDTH THEN find_separators_simd(chunk)
    ELSE find_separators_iter(chunk)

\* func::digits_to_number: a '-' anywhere sets the multiplier.
RECURSIVE FoldNumber(_, _)
FoldNumber(digits, acc) ==
    IF digits = << >> THEN acc
    ELSE FoldNumber(Tail(digits),
                    IF is_ascii_digit(Head(digits))
                    THEN acc * 10 + u8_to_digit(Head(digits))
                    ELSE acc)

HasMinus(digits) == \E i \in DOMAIN digits : digits[i] = MINUS

\* Mutant of digits_to_number: the multiplier is not applied.
digits_to_number_unsigned(digits) == FoldNumber(digits, 0)

digits_to_number(digits) ==
    FoldNumber(digits, 0) * (IF HasMinus(digits) THEN -1 ELSE 1)

\* LineParser::new
LineParserNew(buffer) == [cursor |-> 0, buffer |-> buffer, next |-> << >>]

\* &buffer[from..to], 0-based and half open.
Slice(buffer, from, to) == SubSeq(buffer, from + 1, to)

\* LineParser::parse_line: [some, name, value, parser].
parse_line(parser) ==
    LET refill == parser.next = << >> /\ parser.cursor < Len(parser.buffer)
        refilled == IF refill
                    THEN find_separators(Slice(parser.buffer, parser.cursor,
                                               Min2(parser.cursor + LANE_WIDTH, Len(parser.buffer))))
                    ELSE parser.next
    IN CHOOSE line \in
        { IF next = << >>
          THEN [some |-> FALSE, name |-> << >>, value |-> 0,
                parser |-> [parser EXCEPT !.next = next]]
          ELSE LET semi_colon == Head(next)[1]
                   new_line == Head(next)[2]
                   cursor1 == parser.cursor + semi_colon + 1
               IN [some |-> TRUE,
                   name |-> Slice(parser.buffer, parser.cursor, parser.cursor + semi_colon),
                   value |-> digits_to_number(Slice(parser.buffer, cursor1, cursor1 + new_line)),
                   parser |-> [parser EXCEPT !.next = Tail(next),
                                             !.cursor = cursor1 + new_line + 1]]
          : next \in {refilled} } : TRUE

\* Iterator for LineParser: the pairs parse_line yields until None.
RECURSIVE LineParserPairs(_)
LineParserPairs(parser) ==
    LET line == parse_line(parser)
    IN IF ~line.some THEN << >>
       ELSE <<[name |-> line.name, value |-> line.value]>> \o LineParserPairs(line.parser)

\* LineParser::parse_bytes
LineParser_parse_bytes(bytes, table) ==
    InsertAll(table, LineParserPairs(LineParserNew(bytes)))

\* The (name, value) pairs line::parse_bytes gives to records.insert, in order.
RECURSIVE parse_pairs(_)
parse_pairs(bytes) ==
    LET n == parse_name(bytes)
        v == parse_value(n.rest)
    IN IF ~n.some \/ ~v.ok THEN << >>
       ELSE <<[name |-> n.name, value |-> v.value]>> \o parse_pairs(v.rest)

\* Both parsers called on one frame: up to MaxLines well-formed lines, the
\* last with or without its '\n'.  The names are 1, 25 and 30 bytes long, so
\* that frames reach past one LANE_WIDTH window and windows end inside lines.
NameOf(len, byte) == [i \in 1..len |-> byte]
ParseNames == {NameOf(1, 97), NameOf(25, 98), NameOf(MAX_LINE_LENGTH, 99)}
ParseValues == {-999, -5, 0, 12}
ParseObs == UNION {[1..n -> [name : ParseNames, value : ParseValues]] : n \in 0..MaxLines}

InitParse ==
    /\ Idle
    /\ \E obs \in ParseObs, nl \in BOOLEAN :
          /\ obs = << >> => nl
          /\ args = [op |-> "parse", lines |-> obs, terminated |-> nl,
                     frame |-> RenderStream(obs, nl)]
    /\ rets = NoCall

ParseFrame ==
    /\ args.op = "parse" /\ rets.op = "none"
    /\ rets' = [op |-> "parse",
                scan |-> parse_bytes(args.frame, RecordsNew),
                scan_pairs |-> parse_pairs(args.frame),
                simd |-> LineParser_parse_bytes(args.frame, RecordsNew),
                simd_pairs |-> LineParserPairs(LineParserNew(args.frame))]
    /\ UNCHANGED <<args, pipeline>>

NextParse == ParseFrame
SpecParse == InitParse /\ [][NextParse]_vars

\* C15: parser equivalence.  On a well-formed frame that ends with '\n' the
\* byte-scan parser and the SIMD parser insert the same (name, value) pairs
\* in the same order, the pairs of the frame's lines, and leave equal tables.
ParserEquivalence ==
    (rets.op = "parse" /\ args.terminated) =>
        /\ rets.scan.ok
        /\ rets.scan_pairs = rets.simd_pairs
        /\ rets.simd_pairs = args.lines
        /\ rets.scan.records = rets.simd
        /\ rets.scan.records = InsertAll(RecordsNew, rets.scan_pairs)

ParserEquivalenceWitness ==
    /\ rets.op = "parse" /\ args.terminated
    /\ Len(args.frame) > LANE_WIDTH
    /\ Len(rets.simd_pairs) >= 2
    /\ Len(args.lines[1].name) = MAX_LINE_LENGTH /\ Len(args.lines[2].name) = 25
    /\ args.lines[2].value = -999

\* records.iter_sorted() and records.export_text() on a table
\* (test::station_records_iter, test::station_records_export); the hash map
\* hands out its keys in any order.
ExportNameList == << <<98>>, <<97, 98>>, <<97>>, <<97, 97>> >>
ExportNames == {ExportNameList[i] : i \in 1..Min2(MaxLines + 1, Len(ExportNameList))}
ExportTables ==
    UNION {[keys -> {StatsNew(12), StatsNew(-5)}] : keys \in SUBSET ExportNames}

InitExport ==
    /\ Idle
    /\ \E t \in ExportTables : \E order \in KeyOrders(t) :
          args = [op |-> "export", t |-> t, order |-> order]
    /\ rets = NoCall

ExportTable ==
    /\ args.op = "export" /\ rets.op = "none"
    /\ rets' = [op |-> "export",
                entries |-> iter_sorted(args.t, args.order),
                text |-> export_text(args.t, args.order)]
    /\ UNCHANGED <<args, pipeline>>

NextExport == ExportTable
SpecExport == InitExport /\ [][NextExport]_vars

\* a < b in the lexicographic order of the raw bytes.
BytesLess(a, b) ==
    \E i \in 1..(Len(a) + 1) :
        /\ i <= Len(b)
        /\ \A j \in 1..(i - 1) : a[j] = b[j]
        /\ i > Len(a) \/ a[i] < b[i]

RECURSIVE EntriesText(_, _)
EntriesText(entries, i) ==
    IF i > Len(entries) THEN << >>
    ELSE StatsExportText(entries[i][2], entries[i][1])
            \o (IF i < Len(entries) THEN <<44, 32>> ELSE << >>)
            \o EntriesText(entries, i + 1)

\* C16: sorted export.  iter_sorted yields every key exactly once, in
\* strictly ascending byte order, each with its own stats; export_text is
\* '{', the entries in that order separated by ', ', '}' and a newline, and
\* "{}" and a newline for the empty table.
SortedExport ==
    rets.op = "export" =>
        /\ Len(rets.entries) = Cardinality(DOMAIN args.t)
        /\ {rets.entries[i][1] : i \in DOMAIN rets.entries} = DOMAIN args.t
        /\ \A i \in DOMAIN rets.entries :
              /\ rets.entries[i][2] = args.t[rets.entries[i][1]]
              /\ i > 1 => BytesLess(rets.entries[i - 1][1], rets.entries[i][1])
        /\ rets.text = <<123>> \o EntriesText(rets.entries, 1) \o <<125, 10>>
        /\ args.t = << >> => rets.text = <<123, 125, 10>>

SortedExportWitness ==
    /\ rets.op = "export"
    /\ Len(rets.entries) >= 3
    /\ args.order[1] = rets.entries[3][1] /\ args.order[3] = rets.entries[2][1]
    /\ Len(rets.entries[1][1]) < Len(rets.entries[2][1])

\* C17: the coordinator has a result only after every consumer got None and
\* ended, and the result is the merge of the consumers' tables, each taken
\* once: its keys are the union of theirs and every count and sum is the
\* sum of theirs.
RECURSIVE FoldTables(_)
FoldTables(k) ==
    IF k = 0 THEN RecordsNew ELSE RecordsAdd(FoldTables(k - 1), records[k])

RECURSIVE FieldOver(_, _, _)
FieldOver(name, field, k) ==
    IF k = 0 THEN 0
    ELSE FieldOver(name, field, k - 1)
            + (IF name \in DOMAIN records[k] THEN records[k][name][field] ELSE 0)

CoordinatorAfterWorkers ==
    /\ \A w \in 1..joined :
          wpc[w] = "done" /\ received[w] # << >> /\ received[w][Len(received[w])] = 0
    /\ cpc = "join" /\ threads >= 2 => result = FoldTables(joined)
    /\ Returned =>
          /\ joined = NumWorkers(threads)
          /\ result = (IF threads <= 1 THEN records[1] ELSE FoldTables(joined))
          /\ DOMAIN result = UNION {DOMAIN records[w] : w \in Workers}
          /\ \A name \in DOMAIN result :
                /\ result[name].count = FieldOver(name, "count", joined)
                /\ result[name].sum = FieldOver(name, "sum", joined)

CoordinatorAfterWorkersWitness ==
    /\ cpc = "returned" /\ threads >= 2
    /\ \A w \in Workers : GotFrame(w)
    /\ \E name \in DOMAIN result : \A w \in Workers : name \in DOMAIN records[w]

\* C18: a stream read error is fatal.  Once a chunk read or a line read has
\* failed, the reader call has panicked, closed is not set, no consumer has
\* got None, the coordinator has no result and no text is written; and no
\* frame is pushed from then on.
ReadErrorFatalState ==
    stream_error =>
        /\ \A c \in callers : rpc[c] = "failed"
        /\ ~closed
        /\ \A w \in Workers : wpc[w] # "done"
        /\ cpc = "aborted" /\ output = << >>

ReadErrorFatal ==
    /\ []ReadErrorFatalState
    /\ [][stream_error => pushed' = pushed /\ Len(output_queue') <= Len(output_queue)]_vars

ReadErrorFatalWitness ==
    /\ stream_error
    /\ pushed # << >> /\ pos[1] < Len(stream)
    /\ buffer_export[1].data # << >>
    /\ \E w \in Workers : records[w] # << >>

\* C19: a frame whose last line lacks its '\n' still yields that line as a
\* pair with its value, from the byte-scan parser and from the SIMD parser:
\* both yield the pairs of all the frame's lines.
UnterminatedFinalLine ==
    (rets.op = "parse" /\ ~args.terminated) =>
        /\ rets.scan_pairs = args.lines
        /\ rets.simd_pairs = args.lines

\* parse_value called on a well-formed value `[-]D{1,3}.D` and its '\n'
\* (test::expand_parse_value_tests), with what follows it in the buffer.
ValueDigits == {0, 3, 4, 5, 9}
ValueTails == {<< >>, <<NEWLINE>>, <<98, SEMICOLON, ZERO + 1, DOT, ZERO + 2, NEWLINE>>}
IntDigits == UNION {[1..n -> ValueDigits] : n \in 1..3}

ValueText(neg, int, dec) ==
    (IF neg THEN <<MINUS>> ELSE << >>)
        \o [i \in 1..Len(int) |-> ZERO + int[i]] \o <<DOT, ZERO + dec>>

InitValue ==
    /\ Idle
    /\ \E neg \in BOOLEAN, int \in IntDigits, dec \in ValueDigits, tail \in ValueTails :
          args = [op |-> "parse_value", neg |-> neg, int |-> int, dec |-> dec,
                  tail |-> tail,
                  bytes |-> ValueText(neg, int, dec) \o <<NEWLINE>> \o tail]
    /\ rets = NoCall

ParseValue ==
    /\ args.op = "parse_value" /\ rets.op = "none"
    /\ rets' = [op |-> "parse_value", out |-> parse_value(args.bytes)]
    /\ UNCHANGED <<args, pipeline>>

NextValue == ParseValue
SpecValue == InitValue /\ [][NextValue]_vars

\* The number the decimal digits int, then dec, write.
RECURSIVE DigitsNumber(_)
DigitsNumber(ds) ==
    IF ds = << >> THEN 0 ELSE DigitsNumber(SubSeq(ds, 1, Len(ds) - 1)) * 10 + ds[Len(ds)]

\* C20: value parsing.  For a well-formed value `[-]D{1,3}.D` ended by '\n',
\* parse_value returns the integer its digits write in order, the '.' left
\* out, negated when the first byte is '-', and consumes the bytes through
\* the first '\n' and no more.
ValueParsing ==
    rets.op = "parse_value" =>
        /\ rets.out.ok
        /\ rets.out.value =
              DigitsNumber(Append(args.int, args.dec)) * (IF args.neg THEN -1 ELSE 1)
        /\ rets.out.rest = args.tail

ValueParsingWitness ==
    /\ rets.op = "parse_value"
    /\ args.neg /\ args.int = <<5, 3, 5>> /\ args.dec = 4
    /\ rets.out.value = -5354
    /\ Len(rets.out.rest) > 1

(***************************************************************************)
(* Hash for LiteHashBuffer (parser/hashable_buffer.rs).  A u64 is its      *)
(* eight bytes, the least significant first: a function from 0..7 to       *)
(* 0..255.                                                                 *)
(***************************************************************************)
WordLanes == 0..7

\* x | y on two u8.
RECURSIVE BitOr(_, _)
BitOr(x, y) ==
    IF x = 0 THEN y
    ELSE IF y = 0 THEN x
    ELSE 2 * BitOr(x \div 2, y \div 2) + (IF x % 2 = 1 \/ y % 2 = 1 THEN 1 ELSE 0)

\* Byte `lane` of the number n.
RECURSIVE LaneOf(_, _)
LaneOf(n, lane) == IF lane = 0 THEN n % 256 ELSE LaneOf(n \div 256, lane - 1)

\* self.buffer.len() as u64
U64FromLen(n) == [lane \in WordLanes |-> LaneOf(n, lane)]

\* (byte as u64) << (pos * 8), for pos = at < 8
ByteShifted(byte, at) == [lane \in WordLanes |-> IF lane = at THEN byte ELSE 0]

\* acc | word
WordOr(acc, word) == [lane \in WordLanes |-> BitOr(acc[lane], word[lane])]

\* .iter().take(7).enumerate().fold(len as u64, |acc, (pos, &byte)| acc | byte << (pos * 8))
RECURSIVE HashFold(_, _, _)
HashFold(buffer, at, acc) ==
    IF at >= Min2(7, Len(buffer)) THEN acc
    ELSE HashFold(buffer, at + 1, WordOr(acc, ByteShifted(buffer[at + 1], at)))

\* The word hash() gives to state.write_u64.
lite_hash(buffer) == HashFold(buffer, 0, U64FromLen(Len(buffer)))

\* hash() called on a key: every key of up to MaxLines + 1 bytes over four
\* byte values, and keys of 7, 8 and MAX_LINE_LENGTH bytes.
HashBytes == {1, 97, 98, 255}
HashKeys ==
    UNION {[1..n -> HashBytes] : n \in 0..(MaxLines + 1)}
        \cup {NameOf(7, 97), NameOf(8, 98), NameOf(MAX_LINE_LENGTH, 99)}

InitHash ==
    /\ Idle
    /\ args \in [op : {"hash"}, key : HashKeys]
    /\ rets = NoCall

HashKey ==
    /\ args.op = "hash" /\ rets.op = "none"
    /\ rets' = [op |-> "hash", word |-> lite_hash(args.key)]
    /\ UNCHANGED <<args, pipeline>>

NextHash == HashKey
SpecHash == InitHash /\ [][NextHash]_vars

\* C21: the hash word's layout.  Bits 0..7 hold length & 0xFF; for each i in
\* [0, min(7, length)) bits (i+1)*8 .. (i+2)*8 hold byte i; every other bit
\* is zero.
HashLayout ==
    rets.op = "hash" =>
        LET n == Len(args.key)
        IN /\ rets.word[0] = n % 256
           /\ \A i \in 0..(Min2(7, n) - 1) : rets.word[i + 1] = args.key[i + 1]
           /\ \A lane \in WordLanes : lane > Min2(7, n) => rets.word[lane] = 0

(***************************************************************************)
(* Claims on the reader's loop and the buffer pool.                        *)
(***************************************************************************)

\* C22: the flush trigger.  A chunk read is followed by a flush (the line
\* read, then export_buffer) exactly when it returned zero bytes, or the
\* export buffer's headroom is at most chunk_size + MAX_LINE_LENGTH, or a
\* returned buffer is in input_queue; and a flush ends, before the next chunk
\* read, only with all the data accumulated pushed to output_queue.
FlushTriggerState ==
    \A c \in callers :
        last_read.made =>
            /\ last_read.flushed <=>
                  \/ last_read.n = 0
                  \/ last_read.cap - last_read.len <= chunk_size + MAX_LINE_LENGTH
                  \/ last_read.waiting
            /\ rpc[c] = (IF last_read.flushed THEN "export" ELSE "read")

FlushHandsOff ==
    \A c \in callers :
        /\ (rpc[c] = "export" /\ rpc'[c] # "export" /\ buffer_export[c].data # << >>) =>
              rpc'[c] = "push" /\ buffer_new'[c].data = buffer_export[c].data
        /\ (rpc[c] = "push" /\ rpc'[c] # "push") =>
              pushed' = Append(pushed, buffer_new[c].data)
        /\ (rpc[c] \in {"export", "push"} /\ rpc'[c] \in {"read", "close"}) =>
              /\ buffer_export'[c].data = << >>
              /\ Flatten(pushed') = SubSeq(stream, 1, pos'[c])

FlushTriggerIff == []FlushTriggerState /\ [][FlushHandsOff]_vars

FlushTriggerIffWitness ==
    /\ last_read.made /\ last_read.flushed /\ last_read.waiting
    /\ last_read.n > 0
    /\ last_read.cap - last_read.len > chunk_size + MAX_LINE_LENGTH
    /\ pushed # << >>

\* Where the buffers are: the ids of the allocations held by the reader
\* (its export buffer and, inside export_buffer, the one it is about to
\* push), by the two queues and by the consumers, one entry per holder.
RECURSIVE IdsOf(_)
IdsOf(bufs) ==
    IF bufs = << >> THEN << >>
    ELSE (IF Head(bufs).id = 0 THEN << >> ELSE <<Head(bufs).id>>) \o IdsOf(Tail(bufs))

ReaderHeld == IdsOf([c \in 1..Cardinality(Callers) |-> buffer_export[c]])
                \o IdsOf([c \in 1..Cardinality(Callers) |-> buffer_new[c]])
WorkersHeld == IdsOf([w \in 1..NumWorkers(threads) |-> wbuf[w]])
HeldIds == ReaderHeld \o IdsOf(input_queue) \o IdsOf(output_queue) \o WorkersHeld

Occurrences(ids, id) == Cardinality({i \in DOMAIN ids : ids[i] = id})

ReaderStarted == \E c \in callers : rpc[c] \notin {"call", "panicked"}
Spawned == cpc # "spawn"

\* C23: buffer pool conservation.  Once the N consumers are spawned, each
\* with one buffer, and read() has allocated its export buffer, the buffers
\* held by the reader, the two queues and the consumers are N + 1 in every
\* state, the same N + 1 allocations; a hand-off takes one buffer from
\* input_queue, makes it the export buffer and pushes the old export buffer.
BufferPoolState ==
    /\ Len(HeldIds) = (IF Spawned THEN NumWorkers(threads) ELSE 0)
                        + (IF ReaderStarted THEN 1 ELSE 0)
    /\ (Spawned /\ ReaderStarted) =>
          /\ Len(HeldIds) = NumWorkers(threads) + 1
          /\ {HeldIds[i] : i \in DOMAIN HeldIds} = Workers \cup {-c : c \in callers}

BufferPoolSwap ==
    \A c \in callers :
        /\ (rpc[c] = "export" /\ rpc'[c] = "push") =>
              /\ input_queue # << >> /\ input_queue' = Tail(input_queue)
              /\ buffer_export'[c].id = Head(input_queue).id
              /\ buffer_new'[c].id = buffer_export[c].id
        /\ (rpc[c] = "push" /\ rpc'[c] # "push") =>
              /\ output_queue' # << >>
              /\ output_queue'[Len(output_queue')].id = buffer_new[c].id
              /\ buffer_new'[c] = NoBuffer
        /\ Len(output_queue') > Len(output_queue) => rpc[c] = "push"

SingleOwnership ==
    /\ \A i, j \in DOMAIN HeldIds : i # j => HeldIds[i] # HeldIds[j]
    /\ \A w \in Workers :
          wbuf[w].id # 0 =>
              /\ Occurrences(HeldIds, wbuf[w].id) = 1
              /\ Occurrences(ReaderHeld, wbuf[w].id) = 0
              /\ \A v \in Workers \ {w} : wbuf[v].id # wbuf[w].id
    /\ (Spawned /\ ReaderStarted) =>
          \A id \in Workers \cup {-c : c \in callers} : Occurrences(HeldIds, id) = 1

SingleOwnershipWitness ==
    /\ threads >= 2 /\ Len(pushed) >= 2
    /\ \E w, v \in Workers :
          /\ w # v /\ wbuf[w].frame # 0 /\ wbuf[v].frame # 0
          /\ wbuf[w].id = v
    /\ \E c \in callers : buffer_export[c].id \in Workers

\* C25: bounded hand-off.  The frames pushed and not yet given back by a
\* consumer, those in output_queue and those a consumer holds, are never
\* more than the N consumers; nor is output_queue ever longer than N.
FramesInFlight == Len(output_queue) + Cardinality({w \in Workers : wbuf[w].frame # 0})

BoundedHandOff ==
    /\ FramesInFlight <= NumWorkers(threads)
    /\ Len(output_queue) <= NumWorkers(threads)

BoundedHandOffWitness ==
    /\ threads >= 2
    /\ Len(output_queue) = NumWorkers(threads)
    /\ \E c \in callers : rpc[c] \in {"read", "export"}

\* The frames a consumer got from fill, in the order it got them, and the
\* pairs it gave to records.insert: each frame is parsed whole before the
\* next fill.
RECURSIVE FramesOf(_)
FramesOf(results) ==
    IF results = << >> THEN << >>
    ELSE (IF Head(results) = 0 THEN << >> ELSE <<Head(results)>>) \o FramesOf(Tail(results))

RECURSIVE PairsOfFrames(_)
PairsOfFrames(frames) ==
    IF frames = << >> THEN << >>
    ELSE parse_pairs(pushed[Head(frames)]) \o PairsOfFrames(Tail(frames))

\* The lines of the input that frame f carries: those after the lines of
\* the frames before it.
CountNewlines(bytes) == Cardinality({i \in DOMAIN bytes : bytes[i] = NEWLINE})
FirstLine(f) == CountNewlines(Flatten(SubSeq(pushed, 1, f - 1))) + 1
LastLine(f) == CountNewlines(Flatten(SubSeq(pushed, 1, f)))

RECURSIVE LinesOfFrames(_)
LinesOfFrames(frames) ==
    IF frames = << >> THEN << >>
    ELSE SubSeq(lines, FirstLine(Head(frames)), LastLine(Head(frames)))
            \o LinesOfFrames(Tail(frames))

Increasing(s) == \A i, j \in DOMAIN s : i < j => s[i] < s[j]

\* C26: per-worker file order.  Frames are numbered in stream order as they
\* are pushed; output_queue holds them in increasing order, every consumer
\* gets its frames in increasing order, each later than those it got before
\* and earlier than those still queued; and its table is the result of
\* inserting the pairs of its frames in that order, which for a stream
\* ending with '\n' are lines of the input in file order.
PerWorkerFileOrder ==
    /\ Increasing([i \in DOMAIN output_queue |-> output_queue[i].frame])
    /\ \A w \in Workers :
          LET frames == FramesOf(received[w])
          IN /\ Increasing(frames)
             /\ \A i \in DOMAIN frames, j \in DOMAIN output_queue :
                   frames[i] < output_queue[j].frame
             /\ records[w] = InsertAll(RecordsNew, PairsOfFrames(frames))
             /\ terminated => PairsOfFrames(frames) = LinesOfFrames(frames)

PerWorkerFileOrderWitness ==
    /\ terminated /\ threads >= 2
    /\ \E w \in Workers :
          /\ FramesOf(received[w]) = <<1, 2>>
          /\ \E name \in DOMAIN records[w] :
                records[w][name].count >= 2 /\ records[w][name].min < records[w][name].max

(***************************************************************************)
(* StationStats under sequences of operations: two records, each made by   *)
(* default() or new(value), then extended and merged in any order.         *)
(***************************************************************************)
OpsValues == {I16_MIN, -5, 12, I16_MAX}
OpsMaxCount == MaxLines + 2

InitStatsOps ==
    /\ Idle
    /\ \E a, b \in {StatsDefault} \cup {StatsNew(v) : v \in OpsValues} :
          /\ args = [op |-> "stats_ops", a |-> a, b |-> b]
          /\ rets = [op |-> "stats_ops", a |-> a, b |-> b, merged |-> FALSE]

\* stats.extend(value) on either record.
OpsExtend ==
    /\ rets.op = "stats_ops"
    /\ \E r \in {"a", "b"}, v \in OpsValues :
          /\ rets[r].count < OpsMaxCount
          /\ rets' = [rets EXCEPT ![r] = StatsExtend(rets[r], v)]
    /\ UNCHANGED <<args, pipeline>>

\* a += b or b += a (StationStats is Copy: the right side stays).
OpsMerge ==
    /\ rets.op = "stats_ops"
    /\ rets.a.count + rets.b.count <= OpsMaxCount
    /\ \/ rets' = [rets EXCEPT !.a = StatsAdd(rets.a, rets.b), !.merged = TRUE]
       \/ rets' = [rets EXCEPT !.b = StatsAdd(rets.b, rets.a), !.merged = TRUE]
    /\ UNCHANGED <<args, pipeline>>

NextStatsOps == OpsExtend \/ OpsMerge
SpecStatsOps == InitStatsOps /\ [][NextStatsOps]_vars

\* C27: in every StationStats made by default() or new(value) and changed
\* by any sequence of extends and merges, count > 0 implies min <= max.
MinLeMax ==
    rets.op = "stats_ops" =>
        /\ rets.a.count > 0 => rets.a.min <= rets.a.max
        /\ rets.b.count > 0 => rets.b.min <= rets.b.max

MinLeMaxWitness ==
    /\ rets.op = "stats_ops" /\ rets.merged
    /\ args.a = StatsDefault /\ args.b = StatsDefault
    /\ rets.a.count = OpsMaxCount /\ rets.a.min = I16_MIN /\ rets.a.max = I16_MAX
    /\ rets.b.count > 0 /\ rets.b.min = rets.b.max

\* stats.extend(value) for each value in turn (test::station_stats_extend),
\* on default(), on new(first value) and, for the first value, on any stats.
RECURSIVE ExtendAll(_, _)
ExtendAll(s, values) ==
    IF values = << >> THEN s ELSE ExtendAll(StatsExtend(s, Head(values)), Tail(values))

ExtendSeqs == UNION {[1..n -> OpsValues] : n \in 1..(MaxLines + 1)}

InitExtend ==
    /\ Idle
    /\ args \in [op : {"extend"}, s : CallStats, values : ExtendSeqs]
    /\ rets = NoCall

ExtendStats ==
    /\ args.op = "extend" /\ rets.op = "none"
    /\ rets' = [op |-> "extend",
                one |-> StatsExtend(args.s, Head(args.values)),
                from_default |-> ExtendAll(StatsDefault, args.values),
                from_new |-> ExtendAll(StatsNew(Head(args.values)), Tail(args.values))]
    /\ UNCHANGED <<args, pipeline>>

NextExtend == ExtendStats
SpecExtend == InitExtend /\ [][NextExtend]_vars

SeqMin(values) == CHOOSE v \in {values[i] : i \in DOMAIN values} :
                      \A i \in DOMAIN values : v <= values[i]
SeqMax(values) == CHOOSE v \in {values[i] : i \in DOMAIN values} :
                      \A i \in DOMAIN values : v >= values[i]
RECURSIVE SeqSum(_)
SeqSum(values) == IF values = << >> THEN 0 ELSE Head(values) + SeqSum(Tail(values))

\* C28: extend(v) sets min to min(min, v), max to max(max, v), sum to
\* sum + v and count to count + 1; the default record extended with a
\* non-empty sequence of values holds their minimum, maximum, sum and
\* number, and equals new(first value) extended with the rest.
ExtendSemantics ==
    rets.op = "extend" =>
        LET s == args.s
            v == Head(args.values)
        IN /\ rets.one.min = (IF s.min <= v THEN s.min ELSE v)
           /\ rets.one.max = (IF s.max >= v THEN s.max ELSE v)
           /\ rets.one.sum = s.sum + v
           /\ rets.one.count = s.count + 1
           /\ rets.from_default.min = SeqMin(args.values)
           /\ rets.from_default.max = SeqMax(args.values)
           /\ rets.from_default.sum = SeqSum(args.values)
           /\ rets.from_default.count = Len(args.values)
           /\ rets.from_default = rets.from_new

ExtendSemanticsWitness ==
    /\ rets.op = "extend"
    /\ args.values = <<12, I16_MAX, -5>>
    /\ rets.from_new = [min |-> -5, max |-> 32767, sum |-> 32774, count |-> 3]
    /\ args.s.count >= 2 /\ rets.one.max = args.s.max /\ rets.one.min = args.s.min

(***************************************************************************)
(* parse_name called on a buffer (test::expand_parse_name_tests): every    *)
(* buffer of up to MaxLines + 2 bytes over a letter, a digit, ';' and '\n'. *)
(***************************************************************************)
NameBytes == {97, ZERO + 1, SEMICOLON, NEWLINE}
NameInputs == UNION {[1..n -> NameBytes] : n \in 0..(MaxLines + 2)}

InitName ==
    /\ Idle
    /\ args \in [op : {"parse_name"}, bytes : NameInputs]
    /\ rets = NoCall

ParseName ==
    /\ args.op = "parse_name" /\ rets.op = "none"
    /\ rets' = [op |-> "parse_name", out |-> parse_name(args.bytes)]
    /\ UNCHANGED <<args, pipeline>>

NextName == ParseName
SpecName == InitName /\ [][NextName]_vars

\* C29: parse_name.  On a buffer holding a ';' it returns the bytes before
\* the first ';' and leaves the bytes after that ';'; on an empty buffer it
\* returns none; on a non-empty buffer without ';' it returns the buffer
\* less its last byte, and leaves nothing.
NameParsing ==
    rets.op = "parse_name" =>
        LET b == args.bytes
            semis == {i \in DOMAIN b : b[i] = 59}
        IN IF b = << >> THEN ~rets.out.some /\ rets.out.rest = << >>
           ELSE IF semis # {}
           THEN LET first == CHOOSE i \in semis : \A j \in semis : i <= j
                IN /\ rets.out.some
                   /\ rets.out.name = [i \in 1..(first - 1) |-> b[i]]
                   /\ rets.out.rest = [i \in 1..(Len(b) - first) |-> b[first + i]]
           ELSE /\ rets.out.some
                /\ rets.out.name = [i \in 1..(Len(b) - 1) |-> b[i]]
                /\ rets.out.rest = << >>

NameParsingWitness ==
    /\ rets.op = "parse_name"
    /\ args.bytes = <<97, ZERO + 1, SEMICOLON, SEMICOLON>>
    /\ rets.out.name = <<97, ZERO + 1>> /\ rets.out.rest = <<SEMICOLON>>

(***************************************************************************)
(* find_separators_simd and find_separators_iter called on one window of   *)
(* LANE_WIDTH bytes (test::find_separators_simd_in_text): up to MaxLines   *)
(* lines, then the start of a further line, cut at LANE_WIDTH bytes.       *)
(***************************************************************************)
WindowTails ==
    {NameOf(LANE_WIDTH, 100), <<100, SEMICOLON>> \o NameOf(LANE_WIDTH, ZERO + 1)}

InitSeparators ==
    /\ Idle
    /\ \E obs \in ParseObs, tail \in WindowTails :
          args = [op |-> "separators", lines |-> obs,
                  window |-> Take(RenderLines(obs) \o tail, LANE_WIDTH)]
    /\ rets = NoCall

FindSeparators ==
    /\ args.op = "separators" /\ rets.op = "none"
    /\ rets' = [op |-> "separators",
                simd |-> find_separators_simd(args.window),
                iter |-> find_separators_iter(args.window)]
    /\ UNCHANGED <<args, pipeline>>

NextSeparators == FindSeparators
SpecSeparators == InitSeparators /\ [][NextSeparators]_vars

\* The lines that end inside the window, as (name length, value length).
RECURSIVE WholeLines(_, _)
WholeLines(obs, room) ==
    IF obs = << >> \/ Len(RenderLine(Head(obs))) > room THEN << >>
    ELSE << <<Len(Head(obs).name), Len(FormatValue(Head(obs).value))>> >>
            \o WholeLines(Tail(obs), room - Len(RenderLine(Head(obs))))

SeparatorCount(window) ==
    Cardinality({i \in DOMAIN window : window[i] = 59 \/ window[i] = 10})

\* C30: on a window of 64 bytes that starts at a line start,
\* find_separators_simd and find_separators_iter return the same pairs, the
\* (name length, value length) of the lines that end in the window; a last
\* ';' with no '\n' after it in the window gives no pair.
SeparatorEquivalence ==
    rets.op = "separators" =>
        /\ Len(args.window) = 64
        /\ rets.simd = rets.iter
        /\ rets.simd = WholeLines(args.lines, 64)
        /\ Len(rets.simd) = SeparatorCount(args.window) \div 2

SeparatorEquivalenceWitness ==
    /\ rets.op = "separators"
    /\ SeparatorCount(args.window) = 3
    /\ args.window[64] = ZERO + 1
    /\ rets.simd = << <<25, 5>> >>

(***************************************************************************)
(* The LineParser iterated (test::parse_line_in_text, and the loop of       *)
(* LineParser::parse_bytes): parse_line is called until it returns None.    *)
(***************************************************************************)
InitLineParser ==
    /\ Idle
    /\ \E obs \in ParseObs, nl \in BOOLEAN :
          /\ obs = << >> => nl
          /\ args = [op |-> "line_parser", lines |-> obs, terminated |-> nl,
                     frame |-> RenderStream(obs, nl)]
    /\ rets = [op |-> "line_parser", parser |-> LineParserNew(args.frame),
               pairs |-> << >>, done |-> FALSE]

\* One call of parser.next(): a pair, or None and the loop ends.
LineParserNext ==
    /\ rets.op = "line_parser" /\ ~rets.done
    /\ \E line \in {parse_line(rets.parser)} :
          rets' = [rets EXCEPT
                     !.parser = line.parser,
                     !.pairs = IF line.some
                               THEN Append(@, [name |-> line.name, value |-> line.value])
                               ELSE @,
                     !.done = ~line.some]
    /\ UNCHANGED <<args, pipeline>>

NextLineParser == LineParserNext
SpecLineParser == InitLineParser /\ [][NextLineParser]_vars

\* The loop runs on: a call that can be made is made.
FairSpecLineParser == SpecLineParser /\ WF_vars(LineParserNext)

\* The lines of the buffer that end with '\n'.
CompleteLines ==
    IF args.terminated THEN args.lines ELSE SubSeq(args.lines, 1, Len(args.lines) - 1)

\* C31: the LineParser yields every complete line of its buffer once, in
\* buffer order, as (name, value); it looks for separators again only when
\* no pair found earlier remains; after each call its cursor is at a line
\* start and not past the end of the buffer; and it returns None, after
\* finitely many calls, at the end of the buffer or at a last incomplete line.
LineParserState ==
    rets.op = "line_parser" =>
        LET cursor == rets.parser.cursor
        IN /\ cursor <= Len(args.frame)
           /\ cursor = 0 \/ args.frame[cursor] = 10
           /\ cursor = Len(RenderLines(rets.pairs))
           /\ rets.pairs = SubSeq(CompleteLines, 1, Len(rets.pairs))
           /\ rets.done =>
                 /\ rets.pairs = CompleteLines
                 /\ cursor = Len(args.frame)
                      \/ (~args.terminated /\ cursor = Len(RenderLines(CompleteLines)))

LineParserRefill ==
    (rets.op = "line_parser" /\ rets.parser.next # << >>) =>
        /\ rets'.parser.next = Tail(rets.parser.next)
        /\ Len(rets'.pairs) = Len(rets.pairs) + 1

LineParserYield ==
    /\ []LineParserState
    /\ [][LineParserRefill]_vars
    /\ <>[](rets.op = "line_parser" /\ rets.done)

LineParserYieldWitness ==
    /\ rets.op = "line_parser" /\ rets.done /\ ~args.terminated
    /\ Len(args.frame) > LANE_WIDTH
    /\ Len(args.lines) = 2 /\ Len(rets.pairs) = 1
    /\ Len(rets.pairs[1].name) = MAX_LINE_LENGTH

(***************************************************************************)
(* The pipeline on lines of up to MAX_LINE_LENGTH bytes, the pool's         *)
(* capacity being chunk_size * K + MAX_LINE_LENGTH (config.rs).             *)
(***************************************************************************)
LongName == NameOf(MAX_LINE_LENGTH - 7, 97)

\* A line of MAX_LINE_LENGTH bytes and a short one.
FrameLines == {[name |-> LongName, value |-> -999], [name |-> <<98>>, value |-> 12]}

FrameInputs ==
    UNION {[1..n -> FrameLines] : n \in 0..(MaxLines + 1)}

\* config::MAX_CHUNK_SIZE = CHUNK_SIZE * 16 + MAX_LINE_LENGTH, for K in 1..2.
Multipliers == {1, 2}
FrameConfigs ==
    {<<WithChunkSize(a), WithChunkSize(a) * k + MAX_LINE_LENGTH>> :
        a \in ChunkSizeArgs, k \in Multipliers}

InitFrames ==
    /\ PipelineStart({1}, {1}, FrameInputs, FrameConfigs)
    /\ args = NoCall
    /\ rets = NoCall

SpecFrames == InitFrames /\ [][Next]_vars

\* C32: with lines of at most MAX_LINE_LENGTH bytes and a pool of buffers of
\* capacity chunk_size * K + MAX_LINE_LENGTH, the export buffer never holds
\* more than that capacity, and no frame handed off is longer.
FrameSizeBound ==
    /\ \A c \in callers :
          /\ Len(buffer_export[c].data) <= max_chunk_size
          /\ Len(buffer_new[c].data) <= max_chunk_size
          /\ buffer_export[c].cap \in {0, max_chunk_size}
    /\ \A f \in DOMAIN pushed : Len(pushed[f]) <= max_chunk_size
    /\ \A q \in DOMAIN output_queue : Len(output_queue[q].data) <= max_chunk_size

FrameSizeBoundWitness ==
    /\ max_chunk_size = 2 * MAX_LINE_LENGTH
    /\ \E f \in DOMAIN pushed : Len(pushed[f]) = max_chunk_size
    /\ Len(stream) > max_chunk_size

\* The consumers the coordinator has spawned.
Running == {w \in DOMAIN wpc : wpc[w] # "unspawned"}

\* C33: a thread count of 0 or 1 runs exactly one consumer, whose table is
\* the result as it is; a thread count of 2 or more runs exactly that many.
WorkerCount ==
    /\ Spawned =>
          Cardinality(Running) = (IF threads <= 1 THEN 1 ELSE threads)
    /\ ~Spawned => Running = {}
    /\ (cpc = "returned" /\ threads <= 1) => (joined = 1 /\ result = records[1])
    /\ (cpc = "returned" /\ threads >= 2) => joined = threads

WorkerCountWitness ==
    /\ cpc = "returned" /\ threads = 0
    /\ Running = {1}
    /\ RecordsLen(result) = 2

(***************************************************************************)
(* The table as a HashMap<LiteHashBuffer, StationStats>: an entry is found  *)
(* by the word of Hash and then by Eq (hashable_buffer.rs:8, 30-49).        *)
(***************************************************************************)
\* Mutant of Eq: only the length and the bytes that are hashed are compared.
KeyEqHashed(a, b) ==
    Len(a) = Len(b) /\ \A i \in 1..Min2(7, Len(a)) : a[i] = b[i]

\* #[derive(PartialEq, Eq)] on LiteHashBuffer { buffer: Vec<u8> }
KeyEq(a, b) ==
    Len(a) = Len(b) /\ \A i \in 1..Len(a) : a[i] = b[i]

\* The keys of the table that self.stats.entry(name) / get(name) matches:
\* those with name's hash word that are Eq to it.
EntryFind(table, name) ==
    {k \in DOMAIN table : lite_hash(k) = lite_hash(name) /\ KeyEq(k, name)}

\* StationRecords::insert through the entry found.
EntryInsert(table, name, value) ==
    LET found == EntryFind(table, name)
    IN IF found # {}
       THEN LET k == CHOOSE k \in found : TRUE
            IN Put(table, k, StatsExtend(table[k], value))
       ELSE Put(table, name, StatsNew(value))

\* StationRecords::get through the entry found.
EntryGet(table, name) == {table[k] : k \in EntryFind(table, name)}

\* Names with one hash word: "aaaaaaab" and "aaaaaaac" (same length, same
\* first seven bytes), "`" and "a" (the length is or-ed into byte 0); and
\* names with words of their own.
CollideNames ==
    {NameOf(7, 97) \o <<98>>, NameOf(7, 97) \o <<99>>, <<96>>, <<97>>,
     NameOf(7, 97), <<98>> \o NameOf(7, 97)}
CollideValues == {-5, 12}
CollideObs ==
    UNION {[1..n -> [name : CollideNames, value : CollideValues]] : n \in 0..MaxLines}

InitCollide ==
    /\ Idle
    /\ \E obs \in CollideObs, name \in CollideNames, value \in CollideValues :
          args = [op |-> "entry", table |-> InsertAll(RecordsNew, obs),
                  name |-> name, value |-> value]
    /\ rets = NoCall

InsertEntry ==
    /\ args.op = "entry" /\ rets.op = "none"
    /\ rets' = [op |-> "entry",
                table |-> EntryInsert(args.table, args.name, args.value),
                got |-> [n \in CollideNames |-> EntryGet(args.table, n)]]
    /\ UNCHANGED <<args, pipeline>>

NextCollide == InsertEntry
SpecCollide == InitCollide /\ [][NextCollide]_vars

\* C34: names that differ in a byte are different keys, also when their
\* hash words are the same: an insert for one leaves the stats of every
\* other name as they were, and two keys are equal exactly when their bytes
\* are.
DistinctKeys ==
    rets.op = "entry" =>
        /\ \A a, b \in CollideNames : KeyEq(a, b) <=> a = b
        /\ \A n \in CollideNames : rets.got[n] = Get(args.table, n)
        /\ \A n \in CollideNames \ {args.name} :
              EntryGet(rets.table, n) = Get(args.table, n)
        /\ rets.table = Insert(args.table, args.name, args.value)
        /\ EntryGet(rets.table, args.name) # {}

DistinctKeysWitness ==
    /\ rets.op = "entry"
    /\ Len(args.name) = 8
    /\ \E other \in DOMAIN args.table :
          /\ other # args.name
          /\ lite_hash(other) = lite_hash(args.name)
          /\ ~HasKey(args.table, args.name)
          /\ rets.table[other] = args.table[other]
          /\ rets.table[args.name] = StatsNew(args.value)

\* C35: closed starts false; it changes only in a step of the reader, from
\* false to true, after a flush whose line read returned zero bytes; it is
\* never reset; and once it is set the reader reads nothing more and hands
\* off nothing more.
ClosedSetAtEof ==
    closed' # closed =>
        /\ ~closed /\ closed'
        /\ \E c \in callers :
              /\ rpc[c] = "close" /\ rpc'[c] = "done"
              /\ bytes_read[c] = 0
              /\ pos[c] = Len(stream)
        /\ UNCHANGED <<queues, workerLocal, coordLocal>>

ClosedReaderAtRest ==
    closed =>
        /\ closed'
        /\ UNCHANGED <<pos, bytes_read, pushed, rpc, buffer_export, buffer_new>>
        /\ Len(output_queue') <= Len(output_queue)
        /\ Len(input_queue') >= Len(input_queue)

ClosedMonotone ==
    /\ ~closed
    /\ [][ClosedSetAtEof /\ ClosedReaderAtRest]_vars
    /\ [](closed => \A c \in callers : rpc[c] = "done")

ClosedMonotoneWitness ==
    /\ closed
    /\ Len(pushed) = 2
    /\ \E w \in Workers : wpc[w] = "fill" /\ wbuf[w].data # << >>
    /\ output_queue # << >>

\* C36: the frames in push order, followed by what the reader still holds,
\* are the bytes of the stream read so far, byte for byte; when the reader
\* has ended they are the whole stream.  A buffer in the pool's return queue
\* is empty, and a frame queued or held by a consumer is the frame as pushed.
ByteConservation ==
    /\ \A c \in callers :
          rpc[c] # "panicked" =>
              /\ Flatten(pushed) \o buffer_new[c].data \o buffer_export[c].data
                    = SubSeq(stream, 1, pos[c])
              /\ rpc[c] = "done" => Flatten(pushed) = stream
    /\ \A i \in DOMAIN input_queue : input_queue[i].data = << >>
    /\ \A i \in DOMAIN output_queue :
          output_queue[i].data = pushed[output_queue[i].frame]
    /\ \A w \in Workers :
          (wpc[w] # "unspawned" /\ wbuf[w].frame # 0) => wbuf[w].data = pushed[wbuf[w].frame]

ByteConservationWitness ==
    /\ closed /\ Len(pushed) = 3
    /\ Flatten(pushed) = stream
    /\ Len(pushed[3]) >= MAX_LINE_LENGTH
    /\ \E w \in Workers : wbuf[w].frame = 3 /\ wbuf[w].id < 0

(***************************************************************************)
(* The pipeline under the sizes with_chunk_sizes takes: chunk_size is       *)
(* raised to MAX_LINE_LENGTH, max_chunk_size is taken as given.             *)
(***************************************************************************)
MaxChunkSizeArgs == {10, 2 * MAX_LINE_LENGTH - 1, 2 * MAX_LINE_LENGTH}
AcceptedConfigs ==
    {<<WithChunkSize(a), m>> : a \in ChunkSizeArgs, m \in MaxChunkSizeArgs}

InitSizes ==
    /\ PipelineStart({1}, {1}, ObservationSeqs, AcceptedConfigs)
    /\ args = NoCall
    /\ rets = NoCall

SpecSizes == InitSizes /\ [][Next]_vars

\* C37: whenever buffer_full is evaluated, the buffer's capacity is at
\* least chunk_size + MAX_LINE_LENGTH, so that the subtraction stays at or
\* above zero, for every pair of sizes with_chunk_sizes accepts.
HeadroomNeverUnderflows ==
    (last_read.made /\ last_read.n # 0) =>
        last_read.cap >= chunk_size + MAX_LINE_LENGTH

(***************************************************************************)
(* One station's stats over a long input: extend, and the merge of the      *)
(* stats of two consumers that saw the same observations.  The values       *)
(* observed are kept as the numbers of lines of 99.9 and of -99.9.          *)
(***************************************************************************)
SumLines == 1000000000
SumValues == {-999, 999}
SumExtends == MaxLines

InitSum ==
    /\ Idle
    /\ args = [op |-> "sum", lines |-> SumLines]
    /\ \E v \in SumValues :
          rets = [op |-> "sum", stats |-> StatsNew(v),
                  plus |-> IF v > 0 THEN 1 ELSE 0, minus |-> IF v < 0 THEN 1 ELSE 0,
                  extends |-> 0, panicked |-> FALSE]

\* stats.extend(value)
SumExtend ==
    /\ rets.op = "sum" /\ ~rets.panicked
    /\ rets.stats.count < args.lines /\ rets.extends < SumExtends
    /\ \E v \in SumValues : \E panics \in I32AddPanics(rets.stats.sum, v) :
          rets' = [rets EXCEPT
                     !.stats = IF panics THEN @ ELSE StatsExtend(@, v),
                     !.plus = IF v > 0 THEN @ + 1 ELSE @,
                     !.minus = IF v < 0 THEN @ + 1 ELSE @,
                     !.extends = @ + 1,
                     !.panicked = panics]
    /\ UNCHANGED <<args, pipeline>>

\* stats += other, the other holding the same observations again.
SumMerge ==
    /\ rets.op = "sum" /\ ~rets.panicked
    /\ rets.stats.count <= args.lines \div 2
    /\ \E panics \in I32AddPanics(rets.stats.sum, rets.stats.sum) :
          rets' = [rets EXCEPT
                     !.stats = IF panics THEN @ ELSE StatsAdd(@, @),
                     !.plus = 2 * @,
                     !.minus = 2 * @,
                     !.panicked = panics]
    /\ UNCHANGED <<args, pipeline>>

NextSum == SumExtend \/ SumMerge
SpecSum == InitSum /\ [][NextSum]_vars

\* C38: for every input of up to one billion lines with values in
\* [-999, 999], the i32 sum of a station does not overflow under extend or
\* merge: it is the sum of the values observed, which is within i32.
SumNeverOverflows ==
    rets.op = "sum" =>
        /\ ~rets.panicked
        /\ rets.plus + rets.minus = rets.stats.count
        /\ Abs(rets.plus - rets.minus) <= I32_MAX \div 999
        /\ rets.stats.sum = 999 * (rets.plus - rets.minus)

\* C39: no empty frame is handed off.  Every frame pushed, queued or held
\* by a consumer has at least one byte; and export_buffer on an empty export
\* buffer takes nothing from input_queue and pushes nothing.
NoEmptyFrameState ==
    /\ \A f \in DOMAIN pushed : pushed[f] # << >>
    /\ \A i \in DOMAIN output_queue : output_queue[i].data # << >>
    /\ \A c \in callers : rpc[c] = "push" => buffer_new[c].data # << >>
    /\ \A w \in Workers :
          (wpc[w] # "unspawned" /\ wbuf[w].frame # 0) => wbuf[w].data # << >>

EmptyExportSkipped ==
    \A c \in callers :
        (rpc[c] = "export" /\ rpc'[c] # "export" /\ buffer_export[c].data = << >>) =>
            /\ rpc'[c] = AfterExport(bytes_read[c])
            /\ UNCHANGED <<queues, buffer_export, buffer_new, pushed>>

NoEmptyFrame == []NoEmptyFrameState /\ [][EmptyExportSkipped]_vars

NoEmptyFrameWitness ==
    /\ \E c \in callers :
          /\ rpc[c] = "export" /\ bytes_read[c] = 0
          /\ buffer_export[c].data = << >> /\ buffer_export[c].id > 0
    /\ last_read.made /\ last_read.n = 0
    /\ Len(pushed) = 1
    /\ input_queue = << >>
    /\ output_queue # << >>
    /\ threads = 2

\* C40: on an empty stream the reader pushes no frame and reaches closed
\* through the skipping branch of export_buffer, which waits for no buffer;
\* every consumer gets None from its first fill; the coordinator returns the
\* empty table, exported as "{}\n".  And an empty frame given to either
\* parser leaves a table as it is.
EmptyInput ==
    /\ stream = << >> =>
          /\ pushed = << >> /\ output_queue = << >>
          /\ \A c \in callers :
                /\ buffer_export[c].data = << >> /\ buffer_new[c] = NoBuffer
                /\ rpc[c] \in {"call", "read", "export", "close", "done"}
                /\ closed <=> rpc[c] = "done"
          /\ \A w \in Workers :
                /\ received[w] \in {<< >>, <<0>>}
                /\ records[w] = RecordsNew
                /\ wpc[w] = "done" <=> received[w] = <<0>>
          /\ cpc \in {"returned", "exported"} => result = RecordsNew
          /\ cpc = "exported" => output = <<123, 125, NEWLINE>>
    /\ \A w \in Workers :
          /\ parse_bytes(<< >>, records[w]) = [ok |-> TRUE, records |-> records[w]]
          /\ LineParser_parse_bytes(<< >>, records[w]) = records[w]

EmptyInputWitness ==
    /\ stream = << >> /\ threads = 2
    /\ cpc = "exported" /\ output = <<123, 125, NEWLINE>>
    /\ \A w \in Workers : received[w] = <<0>>
    /\ closed /\ pushed = << >>

====
